---- MODULE Spec2Model ----
(***************************************************************************)
(* A model of the adaptive chunking engine (app/services/chunking_service) *)
(* and of the retrieval pipeline (app/services/rag_service over            *)
(* app/services/storage_service).                                          *)
(*                                                                         *)
(* A Python str is modelled as a sequence of one-character strings, a      *)
(* Python list as a sequence; list positions in the comments are Python's  *)
(* zero-based ones, SubSeq positions are one-based.                        *)
(***************************************************************************)
EXTENDS Integers, Sequences, FiniteSets, TLC

VARIABLES
    call,               \* the ChunkingService method the caller invokes
    text,               \* the str handed to the chunker
    default_chunk_size, \* ChunkingService.default_chunk_size
    default_overlap,    \* ChunkingService.default_overlap
    pc,                 \* position of the running call
    words,              \* fixed_chunking: words
    start_idx,          \* fixed_chunking: start_idx
    chunk_index,        \* fixed_chunking / dynamic_chunking: chunk_index
    chunks,             \* fixed_chunking / dynamic_chunking: chunks
    windows,            \* history: <<start_idx, end_idx>> of every chunk appended by fixed_chunking
    paragraphs,         \* dynamic_chunking: paragraphs
    para_idx,           \* dynamic_chunking: position of `for para in paragraphs` (one-based)
    current_position,   \* dynamic_chunking: current_position
    chunk_origin,       \* history: per chunk of dynamic_chunking, its paragraph and its sentences
    para_sentences,     \* history: per paragraph visited, the sentences _split_sentences returned
    documents,          \* StorageService: rows of the relational table `documents`
    chunk_rows,         \* StorageService: rows of the relational table `chunks`
    collection,         \* StorageService.collection: the entries of the vector store
    uuid_count,         \* the number of uuid4() values drawn so far; the next one is uuid_count + 1
    vector_results,     \* semantic_search: vector_results of the latest call
    chunk_details,      \* semantic_search: chunks, the list get_chunk_details returned to the latest call
    response,           \* what the latest call of the storage or retrieval service or of detect_language returned
    lookups,            \* history: the queries the latest semantic_search made to the relational store
    request,            \* hybrid_search / get_context_for_query: the arguments of the latest call
    semantic_results,   \* history: results['results'] as semantic_search returned it to the latest retrieval call
    collaborator_calls, \* history: the calls the latest retrieval call made, per collaborator
    failure,            \* history: the collaborator that raised during the latest retrieval call
    metadata,           \* decide_strategy / chunk_text: metadata
    requested,          \* chunk_text: the strategy argument of the call
    strategy,           \* chunk_text: strategy; decide_strategy: the value returned
    punkt,              \* what nltk.sent_tokenize does with `text`: raise, or break at `breaks`
    complexity_score,   \* decide_strategy: complexity_score
    has_structure,      \* decide_strategy: has_structure
    decide_calls,       \* history: the number of calls of decide_strategy so far
    decisions           \* history: what decide_strategy was asked with and what it returned

\* the engine's configuration and the caller's input
inputVars == <<call, text, default_chunk_size, default_overlap>>
\* the locals of fixed_chunking
fixedVars == <<words, start_idx, windows>>
\* the locals of dynamic_chunking
dynVars == <<paragraphs, para_idx, current_position, chunk_origin, para_sentences>>

\* the two stores behind StorageService
storeVars == <<documents, chunk_rows, collection, uuid_count>>
\* the latest call of RAGService.semantic_search
searchVars == <<vector_results, chunk_details, response, lookups, request, semantic_results,
                collaborator_calls, failure>>

\* the arguments and locals of decide_strategy and chunk_text, and the tokenizer installed
selectVars == <<metadata, requested, strategy, punkt, complexity_score, has_structure,
                decide_calls, decisions>>

vars == <<inputVars, pc, chunk_index, chunks, fixedVars, dynVars, storeVars, searchVars, selectVars>>

(***************************************************************************)
(* Bounds of the model.                                                    *)
(***************************************************************************)
\* longest text, in characters, handed to fixed_chunking
MaxFixedLen == 8
\* largest default_chunk_size and default_overlap handed to the constructor
MaxSize == 3
\* cap on the chunks one call appends (only a loop that never ends meets it)
MaxChunks == 6

(***************************************************************************)
(* Python built-ins the services use.                                      *)
(***************************************************************************)
Min(a, b) == IF a < b THEN a ELSE b
Max(a, b) == IF a > b THEN a ELSE b

\* str.isspace for one character (the whitespace str.split, str.strip and \s know)
Whitespace == {" ", "\t", "\n", "\r"}

IsSpace(c) == c \in Whitespace

\* all strings over alphabet A of at most n characters
Texts(A, n) == UNION {[1..k -> A] : k \in 0..n}

\* s[lo:hi] of Python, negative positions counted from the end
PySlice(s, lo, hi) ==
    LET n  == Len(s)
        l  == IF lo < 0 THEN Max(lo + n, 0) ELSE Min(lo, n)
        h  == IF hi < 0 THEN Max(hi + n, 0) ELSE Min(hi, n)
    IN  SubSeq(s, l + 1, h)

\* the positions of s where a maximal run of non-whitespace starts
WordStarts(s) ==
    {i \in 1..Len(s) : ~IsSpace(s[i]) /\ (i = 1 \/ IsSpace(s[i - 1]))}

\* the last position of the run of non-whitespace that starts at i
WordEnd(s, i) ==
    CHOOSE j \in i..Len(s) :
        /\ \A m \in i..j : ~IsSpace(s[m])
        /\ (j = Len(s) \/ IsSpace(s[j + 1]))

\* str.split(): the maximal runs of non-whitespace, in order
split(s) ==
    LET starts == WordStarts(s)
        nth(k) == CHOOSE i \in starts : Cardinality({j \in starts : j < i}) = k - 1
    IN  [k \in 1..Cardinality(starts) |-> SubSeq(s, nth(k), WordEnd(s, nth(k)))]

\* ' '.join(ws)
RECURSIVE join(_)
join(ws) ==
    IF ws = <<>> THEN <<>>
    ELSE IF Len(ws) = 1 THEN ws[1]
    ELSE ws[1] \o <<" ">> \o join(Tail(ws))

(***************************************************************************)
(* ChunkingService.fixed_chunking                                          *)
(***************************************************************************)
\* end_idx = min(start_idx + chunk_size, len(words))
end_index(start, size, n) == Min(start + size, n)

next_start_no_overlap(start, size, overlap) == start + size

next_start_swapped(start, size, overlap) == start + (overlap - size)

\* start_idx += (chunk_size - overlap)
next_start(start, size, overlap) == start + (size - overlap)

\* the Chunk one iteration of the while loop builds
fixed_chunk(ws, start, idx, size) ==
    LET end_idx     == end_index(start, size, Len(ws))
        chunk_words == PySlice(ws, start, end_idx)
        chunk_text  == join(chunk_words)
        start_char  == Len(join(PySlice(ws, 0, start)))
    IN  [text       |-> chunk_text,
         index      |-> idx,
         start_char |-> start_char,
         end_char   |-> start_char + Len(chunk_text),
         metadata   |-> [strategy   |-> "fixed",
                         word_count |-> Len(chunk_words),
                         char_count |-> Len(chunk_text)]]

\* a text of one word is returned without a chunk, too
no_words_or_one(ws) == Len(ws) <= 1

\* the loop is entered with an empty list of words, too
no_words_ignored(ws) == FALSE

\* if not words
no_words(ws) == ws = <<>>

\* entry of fixed_chunking: split the text, return [] when there is no word
FixedCall ==
    /\ call = "fixed_chunking"
    /\ pc = "ready"
    /\ words' = split(text)
    /\ chunks' = <<>>
    /\ windows' = <<>>
    /\ start_idx' = 0
    /\ chunk_index' = 0
    /\ pc' = IF no_words(split(text)) THEN "done" ELSE "fixed_loop"
    /\ UNCHANGED <<selectVars, storeVars, searchVars, inputVars, dynVars>>

\* one iteration of `while start_idx < len(words)`
FixedIter ==
    /\ pc = "fixed_loop"
    /\ start_idx < Len(words)
    /\ Len(chunks) < MaxChunks
    /\ chunks' = Append(chunks, fixed_chunk(words, start_idx, chunk_index, default_chunk_size))
    /\ windows' = Append(windows, <<start_idx, end_index(start_idx, default_chunk_size, Len(words))>>)
    /\ start_idx' = next_start(start_idx, default_chunk_size, default_overlap)
    /\ chunk_index' = chunk_index + 1
    /\ UNCHANGED <<selectVars, storeVars, searchVars, inputVars, pc, words, dynVars>>

\* the loop condition fails: return chunks
FixedReturn ==
    /\ pc = "fixed_loop"
    /\ ~(start_idx < Len(words))
    /\ pc' = "done"
    /\ UNCHANGED <<selectVars, storeVars, searchVars, inputVars, chunk_index, chunks, fixedVars, dynVars>>

(***************************************************************************)
(* ChunkingService._split_paragraphs and _split_sentences                  *)
(***************************************************************************)
\* str.strip()
strip(s) ==
    LET solid == {i \in 1..Len(s) : ~IsSpace(s[i])}
    IN  IF solid = {} THEN <<>>
        ELSE SubSeq(s, CHOOSE i \in solid : \A j \in solid : i <= j,
                       CHOOSE i \in solid : \A j \in solid : j <= i)

\* the k-th smallest element of a set of integers
Nth(S, k) == CHOOSE i \in S : Cardinality({j \in S : j < i}) = k - 1

\* s[a..b] is whitespace only
AllSpace(s, a, b) == \A m \in a..b : IsSpace(s[m])

\* where the matches of r'\n\s*\n' start: at a newline that no earlier newline reaches
\* through whitespace (the leftmost match takes that one) and that a later one follows
\* through whitespace
ParaSepStarts(s) ==
    {i \in 1..Len(s) :
        /\ s[i] = "\n"
        /\ \E j \in (i + 1)..Len(s) : s[j] = "\n" /\ AllSpace(s, i, j)
        /\ ~\E h \in 1..(i - 1) : s[h] = "\n" /\ AllSpace(s, h, i)}

\* where the match that starts at i ends: \s* is greedy, so at the last newline the
\* whitespace after i holds
ParaSepEnd(s, i) ==
    CHOOSE j \in (i + 1)..Len(s) :
        /\ s[j] = "\n" /\ AllSpace(s, i, j)
        /\ \A m \in (j + 1)..Len(s) : ~(s[m] = "\n" /\ AllSpace(s, i, m))

\* re.split(r'\n\s*\n', s): the text between the matches
re_split_paragraphs(s) ==
    LET starts == ParaSepStarts(s)
        n      == Cardinality(starts)
        from(k) == IF k = 1 THEN 1 ELSE ParaSepEnd(s, Nth(starts, k - 1)) + 1
        to(k)   == IF k = n + 1 THEN Len(s) ELSE Nth(starts, k) - 1
    IN  [k \in 1..(n + 1) |-> SubSeq(s, from(k), to(k))]

NonEmpty(s) == s # <<>>

\* [x.strip() for x in pieces if x.strip()]
strip_and_keep(pieces) ==
    SelectSeq([k \in 1..Len(pieces) |-> strip(pieces[k])], NonEmpty)

\* _split_paragraphs
split_paragraphs(s) == strip_and_keep(re_split_paragraphs(s))

\* the characters of the class [.!?]
Terminators == {".", "!", "?"}

IsTerminator(c) == c \in Terminators

\* re.split(r'[.!?]+', s): the text between the maximal runs of terminators
re_split_terminators(s) ==
    LET starts == {i \in 1..Len(s) : IsTerminator(s[i]) /\ (i = 1 \/ ~IsTerminator(s[i - 1]))}
        ends   == {i \in 1..Len(s) : IsTerminator(s[i]) /\ (i = Len(s) \/ ~IsTerminator(s[i + 1]))}
        n      == Cardinality(starts)
        from(k) == IF k = 1 THEN 1 ELSE Nth(ends, k - 1) + 1
        to(k)   == IF k = n + 1 THEN Len(s) ELSE Nth(starts, k) - 1
    IN  [k \in 1..(n + 1) |-> SubSeq(s, from(k), to(k))]

\* the positions at which nltk.sent_tokenize may end a sentence: a terminator that
\* whitespace and then more text follow.  Whether punkt breaks there depends on its
\* abbreviation and collocation model, so a call breaks at any subset of them.
BreakCandidates(s) ==
    {i \in 1..(Len(s) - 1) :
        /\ IsTerminator(s[i])
        /\ IsSpace(s[i + 1])
        /\ \E j \in (i + 1)..Len(s) : ~IsSpace(s[j])}

\* nltk.sent_tokenize(s) when it breaks at `breaks`: the slices of s between them
sent_tokenize(s, breaks) ==
    LET n == Cardinality(breaks)
        from(k) == IF k = 1 THEN 1 ELSE Nth(breaks, k - 1) + 1
        to(k)   == IF k = n + 1 THEN Len(s) ELSE Nth(breaks, k)
    IN  [k \in 1..(n + 1) |-> SubSeq(s, from(k), to(k))]

\* _split_sentences: every list of sentences a call may return.  The try branch
\* returns the stripped non-empty sentences of nltk; when nltk raises (its punkt data
\* is missing) the except branch splits on runs of terminators instead.
split_sentences(s) ==
    {strip_and_keep(sent_tokenize(s, b)) : b \in SUBSET BreakCandidates(s)}
        \cup {strip_and_keep(re_split_terminators(s))}

(***************************************************************************)
(* ChunkingService.dynamic_chunking                                        *)
(***************************************************************************)
\* the 'multi-sentence' Chunk built from the accumulated sentences
multi_sentence_chunk(current_chunk, current_size, idx, position) ==
    LET chunk_text == join(current_chunk)
    IN  [text       |-> chunk_text,
         index      |-> idx,
         start_char |-> position,
         end_char   |-> position + Len(chunk_text),
         metadata   |-> [strategy       |-> "dynamic",
                         type           |-> "multi-sentence",
                         sentence_count |-> Len(current_chunk),
                         word_count     |-> current_size]]

\* the 'paragraph' Chunk
paragraph_chunk(para, idx, position) ==
    [text       |-> para,
     index      |-> idx,
     start_char |-> position,
     end_char   |-> position + Len(para),
     metadata   |-> [strategy   |-> "dynamic",
                     type       |-> "paragraph",
                     word_count |-> Len(split(para))]]

emit_without_count(st, chunk, sentences) ==
    [st EXCEPT !.chunks = Append(@, chunk),
               !.current_position = @ + Len(chunk.text) + 1,
               !.origin = Append(@, [para |-> st.para, sentences |-> sentences])]

\* chunks.append(chunk); chunk_index += 1; current_position += len(chunk_text) + 1
\* (origin records the paragraph and the sentences the chunk was built from)
emit(st, chunk, sentences) ==
    [st EXCEPT !.chunks = Append(@, chunk),
               !.chunk_index = @ + 1,
               !.current_position = @ + Len(chunk.text) + 1,
               !.origin = Append(@, [para |-> st.para, sentences |-> sentences])]

\* a buffer flushed already before a sentence that fills it exactly
must_flush_at_size(current_size, sentence_size, current_chunk, size) ==
    current_size + sentence_size >= size /\ current_chunk # <<>>

must_flush_ignoring_sentence(current_size, sentence_size, current_chunk, size) ==
    current_size > size /\ current_chunk # <<>>

\* if current_size + sentence_size > self.default_chunk_size and current_chunk
must_flush(current_size, sentence_size, current_chunk, size) ==
    current_size + sentence_size > size /\ current_chunk # <<>>

\* one iteration of `for sentence in sentences`
sentence_step(st, sentence, size) ==
    LET sentence_size == Len(split(sentence))
        flushed ==
            IF must_flush(st.current_size, sentence_size, st.current_chunk, size)
            THEN [emit(st, multi_sentence_chunk(st.current_chunk, st.current_size,
                                                st.chunk_index, st.current_position),
                       st.current_chunk)
                    EXCEPT !.current_chunk = <<>>, !.current_size = 0]
            ELSE st
    IN  [flushed EXCEPT !.current_chunk = Append(@, sentence),
                        !.current_size = @ + sentence_size]

\* the whole `for sentence in sentences` loop, from its i-th sentence on
RECURSIVE sentence_loop(_, _, _, _)
sentence_loop(st, sentences, i, size) ==
    IF i > Len(sentences) THEN st
    ELSE sentence_loop(sentence_step(st, sentences[i], size), sentences, i + 1, size)

\* the branch for a paragraph of more than default_chunk_size words
pack_sentences(st, sentences, size) ==
    LET after == sentence_loop([st EXCEPT !.current_chunk = <<>>, !.current_size = 0],
                               sentences, 1, size)
    IN  IF after.current_chunk # <<>>
        THEN emit(after, multi_sentence_chunk(after.current_chunk, after.current_size,
                                              after.chunk_index, after.current_position),
                  after.current_chunk)
        ELSE after

is_too_large_or_equal(para, size) == Len(split(para)) >= size

\* if len(para.split()) > self.default_chunk_size
is_too_large(para, size) == Len(split(para)) > size

\* entry of dynamic_chunking: split the text into paragraphs
DynamicCall ==
    /\ call = "dynamic_chunking"
    /\ pc = "ready"
    /\ paragraphs' = split_paragraphs(text)
    /\ chunks' = <<>>
    /\ chunk_index' = 0
    /\ current_position' = 0
    /\ para_idx' = 1
    /\ chunk_origin' = <<>>
    /\ para_sentences' = <<>>
    /\ pc' = "dynamic_loop"
    /\ UNCHANGED <<selectVars, storeVars, searchVars, inputVars, fixedVars>>

\* one iteration of `for para in paragraphs`
DynamicPara ==
    /\ pc = "dynamic_loop"
    /\ para_idx <= Len(paragraphs)
    /\ LET para  == paragraphs[para_idx]
           blank == strip(para) = <<>>
           large == is_too_large(para, default_chunk_size)
           st    == [chunks |-> chunks, chunk_index |-> chunk_index,
                     current_position |-> current_position,
                     current_chunk |-> <<>>, current_size |-> 0,
                     para |-> para_idx, origin |-> chunk_origin]
       IN  \E sentences \in (IF ~blank /\ large THEN split_sentences(para) ELSE {<<>>}) :
               LET after == IF blank THEN st
                            ELSE IF large
                            THEN pack_sentences(st, sentences, default_chunk_size)
                            ELSE emit(st, paragraph_chunk(para, chunk_index, current_position),
                                      <<>>)
               IN  /\ chunks' = after.chunks
                   /\ chunk_index' = after.chunk_index
                   /\ current_position' = after.current_position
                   /\ chunk_origin' = after.origin
                   /\ para_sentences' = Append(para_sentences, sentences)
    /\ para_idx' = para_idx + 1
    /\ UNCHANGED <<selectVars, storeVars, searchVars, inputVars, pc, paragraphs, fixedVars>>

\* the paragraphs are exhausted: return chunks
DynamicReturn ==
    /\ pc = "dynamic_loop"
    /\ para_idx > Len(paragraphs)
    /\ pc' = "done"
    /\ UNCHANGED <<selectVars, storeVars, searchVars, inputVars, chunk_index, chunks, fixedVars, dynVars>>

(***************************************************************************)
(* Python float: IEEE 754 binary64, every operation rounded to the nearest *)
(* representable value, ties to the even one.  A positive float is the     *)
(* record [bits, exp] of value 0.b1 b2 ... b53 (binary) * 2^exp with       *)
(* b1 = 1; the significand is kept as a sequence of bits because it does   *)
(* not fit the integers of the model checker.  The analyzer computes no    *)
(* negative, infinite or subnormal value.                                  *)
(***************************************************************************)
\* bits of the significand of a binary64
Precision == 53

\* 0.0
FloatZero == [bits |-> <<>>, exp |-> 0]

RECURSIVE Pow2(_)
Pow2(n) == IF n = 0 THEN 1 ELSE 2 * Pow2(n - 1)

\* bits + 1 in the last place, for bits that are not all ones
bits_increment(bits) ==
    LET j == CHOOSE i \in 1..Len(bits) :
                 bits[i] = 0 /\ \A k \in (i + 1)..Len(bits) : bits[k] = 1
    IN  [i \in 1..Len(bits) |-> IF i < j THEN bits[i] ELSE IF i = j THEN 1 ELSE 0]

\* round the exact value 0.bits * 2^exp (bits[1] = 1, at least Precision bits; `more`:
\* a non-zero remainder lies below the last bit) to the nearest binary64, ties to even
float_round(bits, more, exp) ==
    LET kept   == SubSeq(bits, 1, Precision)
        guard  == Len(bits) > Precision /\ bits[Precision + 1] = 1
        sticky == more \/ \E i \in (Precision + 2)..Len(bits) : bits[i] = 1
        up     == guard /\ (sticky \/ kept[Precision] = 1)
    IN  IF ~up THEN [bits |-> kept, exp |-> exp]
        ELSE IF \A i \in 1..Precision : kept[i] = 1
             THEN [bits |-> [i \in 1..Precision |-> IF i = 1 THEN 1 ELSE 0], exp |-> exp + 1]
             ELSE [bits |-> bits_increment(kept), exp |-> exp]

\* Bit strings are divided and added nine bits at a time, as digits to the base 512.
DigitWeights == <<256, 128, 64, 32, 16, 8, 4, 2, 1>>

\* the j-th digit of a bit string, zeros after its end
digit_at(bits, j) ==
    LET bit(i) == IF 9 * (j - 1) + i <= Len(bits) THEN bits[9 * (j - 1) + i] ELSE 0
    IN  256 * bit(1) + 128 * bit(2) + 64 * bit(3) + 32 * bit(4) + 16 * bit(5)
            + 8 * bit(6) + 4 * bit(7) + 2 * bit(8) + bit(9)

\* the digits of a bit string
digits_of(bits) == [j \in 1..((Len(bits) + 8) \div 9) |-> digit_at(bits, j)]

\* the bits of a digit string
bits_of(digits) ==
    [i \in 1..(9 * Len(digits)) |->
        (digits[((i - 1) \div 9) + 1] \div DigitWeights[((i - 1) % 9) + 1]) % 2]

\* n digits of the quotient r / d (r < d) after the point, and what remains
RECURSIVE long_division(_, _, _, _)
long_division(r, d, n, quotient) ==
    IF n = 0 THEN [digits |-> quotient, rem |-> r]
    ELSE long_division((512 * r) % d, d, n - 1, Append(quotient, (512 * r) \div d))

\* a / b for two int below 4096: Python's true division, correctly rounded
int_truediv(a, b) ==
    IF a = 0 THEN FloatZero
    ELSE LET exp == CHOOSE e \in -12..12 :
                        IF e >= 0 THEN a < b * Pow2(e) /\ 2 * a >= b * Pow2(e)
                                  ELSE a * Pow2(-e) < b /\ 2 * a * Pow2(-e) >= b
             num == IF exp >= 0 THEN a ELSE a * Pow2(-exp)
             den == IF exp >= 0 THEN b * Pow2(exp) ELSE b
             q   == long_division(num, den, 6, <<>>)
         IN  float_round(bits_of(q.digits), q.rem # 0, exp)

\* the quotient digits of the digit string `dividend` (a fraction) by the int d, and what
\* remains
RECURSIVE long_division_digits(_, _, _, _, _)
long_division_digits(dividend, i, r, d, quotient) ==
    IF i > Len(dividend) THEN [digits |-> quotient, rem |-> r]
    ELSE long_division_digits(dividend, i + 1, (512 * r + dividend[i]) % d, d,
                              Append(quotient, (512 * r + dividend[i]) \div d))

\* x / d for a float x and an int d (1 <= d < 128)
float_div_int(x, d) ==
    IF x = FloatZero THEN FloatZero
    ELSE LET q     == long_division_digits(digits_of(x.bits \o <<0, 0, 0, 0, 0, 0, 0, 0, 0, 0>>),
                                           1, 0, d, <<>>)
             qbits == bits_of(q.digits)
             first == CHOOSE i \in 1..Len(qbits) :
                          qbits[i] = 1 /\ \A k \in 1..(i - 1) : qbits[k] = 0
         IN  float_round(SubSeq(qbits, first, Len(qbits)), q.rem # 0, x.exp - (first - 1))

\* the sum of two digit strings of one length, from the last digit to the first, and
\* the carry out of the first
RECURSIVE ripple_add(_, _, _, _, _)
ripple_add(a, b, i, carry, sum) ==
    IF i = 0 THEN [digits |-> sum, carry |-> carry]
    ELSE ripple_add(a, b, i - 1, (a[i] + b[i] + carry) \div 512,
                    <<(a[i] + b[i] + carry) % 512>> \o sum)

\* x + y
float_add(x, y) ==
    IF x = FloatZero THEN y
    ELSE IF y = FloatZero THEN x
    ELSE LET hi == IF x.exp >= y.exp THEN x ELSE y
             lo == IF x.exp >= y.exp THEN y ELSE x
             shift == hi.exp - lo.exp
             a == digits_of(hi.bits \o [i \in 1..shift |-> 0])
             b == digits_of([i \in 1..shift |-> 0] \o lo.bits)
             total == ripple_add(a, b, Len(a), 0, <<>>)
         IN  IF total.carry = 1
             THEN float_round(<<1>> \o bits_of(total.digits), FALSE, hi.exp + 1)
             ELSE float_round(bits_of(total.digits), FALSE, hi.exp)

\* x / 2
float_half(x) == IF x = FloatZero THEN x ELSE [bits |-> x.bits, exp |-> x.exp - 1]

\* x > y
float_gt(x, y) ==
    IF x = FloatZero THEN FALSE
    ELSE IF y = FloatZero THEN TRUE
    ELSE \/ x.exp > y.exp
         \/ /\ x.exp = y.exp
            /\ \E i \in 1..Precision :
                  /\ x.bits[i] > y.bits[i]
                  /\ \A k \in 1..(i - 1) : x.bits[k] = y.bits[k]

\* min(x, y): Python returns y only when y < x
float_min(x, y) == IF float_gt(x, y) THEN y ELSE x

\* the literal 1.0
Float1 == int_truediv(1, 1)

\* the literal 0.6: the binary64 nearest to 6/10
Float06 == int_truediv(6, 10)

(***************************************************************************)
(* ChunkingService._has_structural_elements                                *)
(***************************************************************************)
UpperLetters ==
    <<"A", "B", "C", "D", "E", "F", "G", "H", "I", "J", "K", "L", "M",
      "N", "O", "P", "Q", "R", "S", "T", "U", "V", "W", "X", "Y", "Z">>

LowerLetters ==
    <<"a", "b", "c", "d", "e", "f", "g", "h", "i", "j", "k", "l", "m",
      "n", "o", "p", "q", "r", "s", "t", "u", "v", "w", "x", "y", "z">>

IsUpperLetter(c) == \E k \in 1..26 : UpperLetters[k] = c

IsLowerLetter(c) == \E k \in 1..26 : LowerLetters[k] = c

\* the class \d
Digits == {"0", "1", "2", "3", "4", "5", "6", "7", "8", "9"}

\* str.lower()
lower(s) ==
    [i \in 1..Len(s) |->
        IF IsUpperLetter(s[i])
        THEN LowerLetters[CHOOSE k \in 1..26 : UpperLetters[k] = s[i]]
        ELSE s[i]]

\* str.isupper(): some cased character, and no lower-case one
isupper(s) ==
    /\ \E i \in 1..Len(s) : IsUpperLetter(s[i])
    /\ \A i \in 1..Len(s) : ~IsLowerLetter(s[i])

\* str.endswith(':')
endswith_colon(s) == Len(s) > 0 /\ s[Len(s)] = ":"

\* text.split('\n'): the text between the newlines, empty pieces kept
split_lines(s) ==
    LET nl == {i \in 1..Len(s) : s[i] = "\n"}
        n  == Cardinality(nl)
        from(k) == IF k = 1 THEN 1 ELSE Nth(nl, k - 1) + 1
        to(k)   == IF k = n + 1 THEN Len(s) ELSE Nth(nl, k) - 1
    IN  [k \in 1..(n + 1) |-> SubSeq(s, from(k), to(k))]

\* the character U+2022 (bullet), which a TLA+ string cannot hold
Bullet == "U+2022"

\* the class [\-\*\U+2022\d]
ListMarkers == {"-", "*", Bullet} \cup Digits

\* the class [\.\)]
ListClosers == {".", ")"}

\* list_pattern.match(line) for r'^\s*[\-\*\U+2022\d]+[\.\)]\s+': whitespace up to a, markers
\* from a up to b, a closer at b and whitespace after it
list_pattern_match(line) ==
    \E a \in 1..Len(line), b \in 2..(Len(line) - 1) :
        /\ a < b
        /\ \A i \in 1..(a - 1) : IsSpace(line[i])
        /\ \A i \in a..(b - 1) : line[i] \in ListMarkers
        /\ line[b] \in ListClosers
        /\ IsSpace(line[b + 1])

\* a line that holds ten words is not a heading
is_short_line_or_ten(line) == Len(split(line)) <= 10

\* len(line.split()) < 10
is_short_line(line) == Len(split(line)) < 10

\* the first loop of _has_structural_elements, on one line
is_heading(line) ==
    LET stripped == strip(line)
    IN  /\ stripped # <<>>
        /\ is_short_line(stripped)
        /\ isupper(stripped) \/ endswith_colon(stripped)

\* _has_structural_elements
has_structural_elements(s) ==
    LET lines == split_lines(s)
    IN  \/ \E k \in 1..Len(lines) : is_heading(lines[k])
        \/ \E k \in 1..Len(lines) : list_pattern_match(lines[k])

(***************************************************************************)
(* ChunkingService._calculate_complexity and decide_strategy               *)
(***************************************************************************)
\* the empty dict
EmptyDict == [key \in {} |-> "unknown"]

\* dict.get(key, default)
dict_get(d, key, default) == IF key \in DOMAIN d THEN d[key] ELSE default

\* _split_sentences(s) with the tokenizer installed: nltk.sent_tokenize raises when its
\* punkt data is missing, else it breaks where its model breaks
split_sentences_with(s, tokenizer) ==
    IF tokenizer.available
    THEN strip_and_keep(sent_tokenize(s, tokenizer.breaks))
    ELSE strip_and_keep(re_split_terminators(s))

\* what nltk.sent_tokenize may do with s
Tokenizers(s) ==
    {[available |-> FALSE, breaks |-> {}]}
        \cup {[available |-> TRUE, breaks |-> b] : b \in SUBSET BreakCandidates(s)}

\* sum(len(s.split()) for s in sentences)
RECURSIVE sum_of_lengths(_)
sum_of_lengths(sentences) ==
    IF sentences = <<>> THEN 0
    ELSE Len(split(Head(sentences))) + sum_of_lengths(Tail(sentences))

\* len(set(words))
distinct_count(ws) == Cardinality({ws[i] : i \in 1..Len(ws)})

\* the scores are added and not halved
complexity_not_halved(s, sentences) ==
    IF sentences = <<>> THEN FloatZero
    ELSE LET avg_sentence_length == int_truediv(sum_of_lengths(sentences), Len(sentences))
             length_score == float_min(float_div_int(avg_sentence_length, 30), Float1)
             ws == split(lower(s))
             diversity_score == IF ws # <<>> THEN int_truediv(distinct_count(ws), Len(ws))
                                ELSE FloatZero
         IN  float_add(length_score, diversity_score)

\* _calculate_complexity, with the sentences _split_sentences returned
calculate_complexity(s, sentences) ==
    IF sentences = <<>> THEN FloatZero
    ELSE LET avg_sentence_length == int_truediv(sum_of_lengths(sentences), Len(sentences))
             length_score == float_min(float_div_int(avg_sentence_length, 30), Float1)
             ws == split(lower(s))
             diversity_score == IF ws # <<>> THEN int_truediv(distinct_count(ws), Len(ws))
                                ELSE FloatZero
         IN  float_half(float_add(length_score, diversity_score))

\* (length_score + diversity_score) / 2 in exact arithmetic, as a quotient of two int,
\* with the sentences _split_sentences returned: min(W / (30 * S), 1) and U / N are
\* brought to one denominator
exact_mean(s, sentences) ==
    IF sentences = <<>> THEN [num |-> 0, den |-> 1]
    ELSE LET W  == sum_of_lengths(sentences)
             S  == Len(sentences)
             ws == split(lower(s))
             N  == IF ws # <<>> THEN Len(ws) ELSE 1
             U  == IF ws # <<>> THEN distinct_count(ws) ELSE 0
             ln == IF W >= 30 * S THEN 1 ELSE W
             ld == IF W >= 30 * S THEN 1 ELSE 30 * S
         IN  [num |-> ln * N + U * ld, den |-> 2 * ld * N]

\* the sign of the exact mean minus 3/5
mean_against_three_fifths(s, sentences) ==
    LET mean == exact_mean(s, sentences)
    IN  IF 5 * mean.num > 3 * mean.den THEN 1
        ELSE IF 5 * mean.num = 3 * mean.den THEN 0 ELSE -1

\* the language decides
strategy_rule_by_language(score, structured, language) ==
    IF float_gt(score, Float06) \/ structured \/ language = "arabic" THEN "dynamic" ELSE "fixed"

\* the comparison is not strict
strategy_rule_not_strict(score, structured, language) ==
    IF ~float_gt(Float06, score) \/ structured THEN "dynamic" ELSE "fixed"

\* the decision logic of decide_strategy; language is read and logged only
strategy_rule(score, structured, language) ==
    IF float_gt(score, Float06) \/ structured THEN "dynamic" ELSE "fixed"

\* decide_strategy(text, metadata)
decide_strategy(s, meta, tokenizer) ==
    strategy_rule(calculate_complexity(s, split_sentences_with(s, tokenizer)),
                  has_structural_elements(s),
                  dict_get(meta, "language", "unknown"))

\* no call of decide_strategy or chunk_text made
SelectorIdle ==
    /\ metadata = EmptyDict
    /\ requested = "none"
    /\ strategy = "none"
    /\ punkt = [available |-> FALSE, breaks |-> {}]
    /\ complexity_score = FloatZero
    /\ has_structure = FALSE
    /\ decide_calls = 0
    /\ decisions = {}

(***************************************************************************)
(* fixed_chunking on every short text and on scenario 1 of the             *)
(* specification: twenty words, size 10, overlap 2.                        *)
(***************************************************************************)
FixedAlphabet == {"a", " "}

ScenarioSize == 10
ScenarioOverlap == 2

Scenario1Text ==
    join(<< <<"a">>, <<"b">>, <<"c">>, <<"d">>, <<"e">>, <<"f">>, <<"g">>, <<"h">>,
            <<"i">>, <<"j">>, <<"k">>, <<"l">>, <<"m">>, <<"n">>, <<"o">>, <<"p">>,
            <<"q">>, <<"r">>, <<"s">>, <<"t">> >>)

ChunkerIdle ==
    /\ pc = "ready"
    /\ words = <<>>
    /\ start_idx = 0
    /\ chunk_index = 0
    /\ chunks = <<>>
    /\ windows = <<>>
    /\ paragraphs = <<>>
    /\ para_idx = 0
    /\ current_position = 0
    /\ chunk_origin = <<>>
    /\ para_sentences = <<>>

\* the stores as StorageService.__init__ finds them on a fresh deployment, no call made
\* no call of hybrid_search or get_context_for_query made
NoRequest == [op |-> "none"]

\* no collaborator called
NoCalls == [embedding |-> 0, vector_store |-> 0, chunk_details |-> 0, documents |-> 0]

StoresEmpty ==
    /\ documents = {}
    /\ chunk_rows = {}
    /\ collection = {}
    /\ uuid_count = 0
    /\ vector_results = [ids |-> <<>>, distances |-> <<>>]
    /\ chunk_details = <<>>
    /\ response = [op |-> "none"]
    /\ lookups = 0
    /\ request = NoRequest
    /\ failure = "none"
    /\ semantic_results = <<>>
    /\ collaborator_calls = NoCalls

InitFixed ==
    /\ call = "fixed_chunking"
    /\ \/ /\ text \in Texts(FixedAlphabet, MaxFixedLen)
          /\ default_chunk_size \in 1..MaxSize
          /\ default_overlap \in 0..MaxSize
       \/ /\ text = Scenario1Text
          /\ default_chunk_size = ScenarioSize
          /\ default_overlap = ScenarioOverlap
    /\ ChunkerIdle
    /\ StoresEmpty
    /\ SelectorIdle

NextFixed == FixedCall \/ FixedIter \/ FixedReturn

SpecFixed == InitFixed /\ [][NextFixed]_vars

\* a call that is running keeps running
FairSpecFixed == SpecFixed /\ WF_vars(NextFixed)

(***************************************************************************)
(* dynamic_chunking on every short text over letters, full stops, blanks   *)
(* and newlines, on scenario 2 of the specification (two short paragraphs, *)
(* the default configuration) and on a paragraph of three sentences.       *)
(***************************************************************************)
\* longest text, in characters, handed to dynamic_chunking
MaxDynLen == 6

DynAlphabet == {"a", ".", " ", "\n"}

DefaultChunkSize == 512
DefaultOverlap == 50

\* "Para A.\n\nPara B."
Scenario2Text ==
    << "P", "a", "r", "a", " ", "A", ".", "\n", "\n", "P", "a", "r", "a", " ", "B", "." >>

\* "Go. Do.\nIt is so."
ThreeSentences ==
    << "G", "o", ".", " ", "D", "o", ".", "\n", "I", "t", " ", "i", "s", " ", "s", "o", "." >>

InitDynamic ==
    /\ call = "dynamic_chunking"
    /\ \/ /\ text \in Texts(DynAlphabet, MaxDynLen) \cup {ThreeSentences}
          /\ default_chunk_size \in 1..MaxSize
          /\ default_overlap = 0
       \/ /\ text = Scenario2Text
          /\ default_chunk_size = DefaultChunkSize
          /\ default_overlap = DefaultOverlap
    /\ ChunkerIdle
    /\ StoresEmpty
    /\ SelectorIdle

NextDynamic == DynamicCall \/ DynamicPara \/ DynamicReturn

SpecDynamic == InitDynamic /\ [][NextDynamic]_vars

(***************************************************************************)
(* Either chunker, each on its inputs.                                     *)
(***************************************************************************)
InitChunking == InitFixed \/ InitDynamic

NextChunking == NextFixed \/ NextDynamic

SpecChunking == InitChunking /\ [][NextChunking]_vars

(***************************************************************************)
(* decide_strategy on its inputs: every short text over an alphabet that   *)
(* holds what the analyzer looks at, the texts of the documented           *)
(* scenarios, and texts on both sides of the two thresholds.               *)
(***************************************************************************)
\* longest text, in characters, handed to decide_strategy
MaxSelectLen == 3
\* calls of decide_strategy in one run
MaxDecisions == 2

SelectAlphabet == {"A", "a", ":", "1", ".", " ", "\n"}

\* "plain short sentence."
PlainText ==
    <<"p", "l", "a", "i", "n", " ", "s", "h", "o", "r", "t", " ", "s", "e", "n", "t", "e",
      "n", "c", "e", ".">>

\* "ALL CAPS HEADING\n\nBody text here."
HeadingText ==
    <<"A", "L", "L", " ", "C", "A", "P", "S", " ", "H", "E", "A", "D", "I", "N", "G", "\n",
      "\n", "B", "o", "d", "y", " ", "t", "e", "x", "t", " ", "h", "e", "r", "e", ".">>

\* complex_text of test_strategy_decision
ComplexText ==
    <<"\n", " ", " ", " ", " ", "H", "E", "A", "D", "I", "N", "G", " ", "O", "N", "E",
      "\n", " ", " ", " ", " ", "\n", " ", " ", " ", " ", "T", "h", "i", "s", " ", "i",
      "s", " ", "a", " ", "c", "o", "m", "p", "l", "e", "x", " ", "p", "a", "r", "a", "g",
      "r", "a", "p", "h", " ", "w", "i", "t", "h", " ", "s", "t", "r", "u", "c", "t", "u",
      "r", "e", ".", "\n", " ", " ", " ", " ", "\n", " ", " ", " ", " ", "-", " ", "B",
      "u", "l", "l", "e", "t", " ", "p", "o", "i", "n", "t", " ", "o", "n", "e", "\n", " ",
      " ", " ", " ", "-", " ", "B", "u", "l", "l", "e", "t", " ", "p", "o", "i", "n", "t",
      " ", "t", "w", "o", "\n", " ", " ", " ", " ">>

\* one sentence of six distinct words: length score 6/30, diversity 6/6
SixWordsText ==
    <<"a", " ", "b", " ", "c", " ", "d", " ", "e", " ", "f">>

\* one sentence of seven distinct words: length score 7/30, diversity 7/7
SevenWordsText ==
    <<"a", " ", "b", " ", "c", " ", "d", " ", "e", " ", "f", " ", "g">>

\* five sentences of twelve words, 48 of the 60 words distinct: length score 12/30,
\* diversity 48/60
SixtyWordsText ==
    <<"a", " ", "b", " ", "c", " ", "d", " ", "e", " ", "f", " ", "g", " ", "h", " ", "i",
      " ", "j", " ", "k", " ", "l", ".", " ", "m", " ", "n", " ", "o", " ", "p", " ", "q",
      " ", "r", " ", "s", " ", "t", " ", "u", " ", "v", " ", "w", " ", "x", ".", " ", "y",
      " ", "z", " ", "a", "a", " ", "a", "b", " ", "a", "c", " ", "a", "d", " ", "a", "e",
      " ", "a", "f", " ", "a", "g", " ", "a", "h", " ", "a", "i", " ", "a", "j", ".", " ",
      "a", "k", " ", "a", "l", " ", "a", "m", " ", "a", "n", " ", "a", "o", " ", "a", "p",
      " ", "a", "q", " ", "a", "r", " ", "a", "s", " ", "a", "t", " ", "a", "u", " ", "a",
      "v", ".", " ", "a", " ", "b", " ", "c", " ", "d", " ", "e", " ", "f", " ", "g", " ",
      "h", " ", "i", " ", "j", " ", "k", " ", "l", ".">>

\* one sentence of 31 words, all the same: length score min(31/30, 1), diversity 1/31
ThirtyOneWordsText ==
    <<"a", " ", "a", " ", "a", " ", "a", " ", "a", " ", "a", " ", "a", " ", "a", " ", "a",
      " ", "a", " ", "a", " ", "a", " ", "a", " ", "a", " ", "a", " ", "a", " ", "a", " ",
      "a", " ", "a", " ", "a", " ", "a", " ", "a", " ", "a", " ", "a", " ", "a", " ", "a",
      " ", "a", " ", "a", " ", "a", " ", "a", " ", "a">>

\* a line of nine words and a line of ten, all upper-case
NineWordsLine ==
    <<"A", " ", "A", " ", "A", " ", "A", " ", "A", " ", "A", " ", "A", " ", "A", " ", "A">>

TenWordsLine ==
    <<"A", " ", "A", " ", "A", " ", "A", " ", "A", " ", "A", " ", "A", " ", "A", " ", "A",
      " ", "A">>

ScenarioTexts ==
    {PlainText, HeadingText, ComplexText, SixWordsText, SevenWordsText, SixtyWordsText,
     ThirtyOneWordsText, NineWordsLine, TenWordsLine}

\* the metadata handed to decide_strategy
Metadatas == {EmptyDict, [language |-> "english"], [language |-> "arabic"]}

\* the configurations an engine is constructed with
Configurations == {<<DefaultChunkSize, DefaultOverlap>>, <<ScenarioSize, ScenarioOverlap>>}

\* ChunkingService.decide_strategy(text, metadata)
DecideStrategy ==
    /\ call = "decide_strategy"
    /\ pc = "ready"
    /\ LET score == calculate_complexity(text, split_sentences_with(text, punkt))
           structured == has_structural_elements(text)
       IN  \E meta \in Metadatas :
              /\ metadata' = meta
              /\ complexity_score' = score
              /\ has_structure' = structured
              /\ strategy' = strategy_rule(score, structured, dict_get(meta, "language", "unknown"))
              /\ decisions' = decisions \cup
                    {[metadata |-> meta,
                      chunk_size |-> default_chunk_size,
                      strategy |-> strategy_rule(score, structured,
                                                 dict_get(meta, "language", "unknown"))]}
    /\ decide_calls' = decide_calls + 1
    /\ pc' = "done"
    /\ UNCHANGED <<call, text, default_chunk_size, default_overlap, requested, punkt>>
    /\ UNCHANGED <<chunk_index, chunks, fixedVars, dynVars, storeVars, searchVars>>

\* ChunkingService.__init__: the caller constructs another engine for the next call
Construct ==
    /\ call = "decide_strategy"
    /\ pc = "done"
    /\ decide_calls < MaxDecisions
    /\ \E config \in Configurations :
          /\ default_chunk_size' = config[1]
          /\ default_overlap' = config[2]
    /\ pc' = "ready"
    /\ UNCHANGED <<call, text, selectVars>>
    /\ UNCHANGED <<chunk_index, chunks, fixedVars, dynVars, storeVars, searchVars>>

InitSelect ==
    /\ call = "decide_strategy"
    /\ text \in Texts(SelectAlphabet, MaxSelectLen) \cup ScenarioTexts
    /\ default_chunk_size = DefaultChunkSize
    /\ default_overlap = DefaultOverlap
    /\ ChunkerIdle
    /\ StoresEmpty
    /\ metadata = EmptyDict
    /\ requested = "none"
    /\ strategy = "none"
    /\ punkt \in Tokenizers(text)
    /\ complexity_score = FloatZero
    /\ has_structure = FALSE
    /\ decide_calls = 0
    /\ decisions = {}

NextSelect == DecideStrategy \/ Construct

SpecSelect == InitSelect /\ [][NextSelect]_vars

(***************************************************************************)
(* The engine with its three entry points: fixed_chunking,                 *)
(* dynamic_chunking, and chunk_text with every strategy tag, on every      *)
(* short text, with every configuration (overlap >= size among them).      *)
(***************************************************************************)
\* longest text, in characters, handed to the engine
MaxEngineLen == 3

EngineAlphabet == {"A", "a", " ", "\n"}

\* the values of the argument `strategy`; 'semantic' stands for every tag that
\* chunk_text does not know
StrategyTags == {"fixed", "dynamic", "auto", "semantic"}

\* the branches are taken the other way round
chunker_swapped(tag) ==
    IF tag = "fixed" THEN "dynamic_chunking"
    ELSE IF tag = "dynamic" THEN "fixed_chunking"
    ELSE "ValueError"

\* the if / elif / else of chunk_text: the method called for a strategy
chunker_for(tag) ==
    IF tag = "fixed" THEN "fixed_chunking"
    ELSE IF tag = "dynamic" THEN "dynamic_chunking"
    ELSE "ValueError"

\* ChunkingService.chunk_text(text, strategy, metadata) up to the call of the chunker,
\* which then runs as FixedCall or DynamicCall and what follows them; metadata None is
\* the empty dict
ChunkText ==
    /\ call = "chunk_text"
    /\ pc = "ready"
    /\ \E tag \in StrategyTags, meta \in Metadatas :
          LET score == calculate_complexity(text, split_sentences_with(text, punkt))
              structured == has_structural_elements(text)
              resolved == IF tag = "auto"
                          THEN strategy_rule(score, structured,
                                             dict_get(meta, "language", "unknown"))
                          ELSE tag
          IN  /\ requested' = tag
              /\ metadata' = meta
              /\ complexity_score' = IF tag = "auto" THEN score ELSE complexity_score
              /\ has_structure' = IF tag = "auto" THEN structured ELSE has_structure
              /\ strategy' = resolved
              /\ call' = IF chunker_for(resolved) = "ValueError" THEN call
                         ELSE chunker_for(resolved)
              /\ pc' = IF chunker_for(resolved) = "ValueError" THEN "raised" ELSE "ready"
    /\ UNCHANGED <<text, default_chunk_size, default_overlap, punkt, decide_calls, decisions>>
    /\ UNCHANGED <<chunk_index, chunks, fixedVars, dynVars, storeVars, searchVars>>

InitEngine ==
    /\ call \in {"fixed_chunking", "dynamic_chunking", "chunk_text"}
    /\ text \in Texts(EngineAlphabet, MaxEngineLen) \cup {PlainText, HeadingText, ThreeSentences}
    /\ default_chunk_size \in 1..MaxSize
    /\ default_overlap \in 0..MaxSize
    /\ ChunkerIdle
    /\ StoresEmpty
    /\ metadata = EmptyDict
    /\ requested = "none"
    /\ strategy = "none"
    /\ punkt \in Tokenizers(text)
    /\ complexity_score = FloatZero
    /\ has_structure = FALSE
    /\ decide_calls = 0
    /\ decisions = {}

NextEngine == ChunkText \/ NextFixed \/ NextDynamic

SpecEngine == InitEngine /\ [][NextEngine]_vars

(***************************************************************************)
(* The stores (app/services/storage_service) and the retrieval             *)
(* orchestrator (app/services/rag_service).                                 *)
(*                                                                         *)
(* A uuid4() value is modelled as the next natural number: never used      *)
(* before, never used again.  An embedding is a point of a line; a         *)
(* distance and a score are counted in units of 0.00001, so that           *)
(* round(x, 4) has digits to drop.                                         *)
(***************************************************************************)
\* uuid4() values drawn in one run
MaxUuids == 4
\* largest number of chunks handed to one store_chunks call
MaxBatch == 2
\* largest top_k handed to semantic_search
MaxTopK == 2

\* document_id: Optional[str] = None
None == 0

\* 1.0, in units of 0.00001
One == 100000

\* the chunk texts and the queries
Phrases == {<<"a">>, <<"b">>, <<"c">>}

Languages == {"english", "arabic"}

Filename == <<"a", ".", "t", "x", "t">>

\* EmbeddingService.generate_embedding: the encoder is a fixed function of the text
generate_embedding(t) ==
    CASE t = <<"a">> -> 0
      [] t = <<"b">> -> 1
      [] OTHER       -> 2

\* the squared distance of two neighbouring points, in units of 0.00001
DistanceUnit == 12346

\* the vector store's distance of a stored embedding from the query embedding
Distance(q, e) == (q - e) * (q - e) * DistanceUnit

\* round(x, 4), x in units of 0.00001
Round4(x) == ((x + 5) \div 10) * 10

\* the orderings of a finite set
Perms(S) ==
    {s \in [1..Cardinality(S) -> S] : \A i, j \in 1..Cardinality(S) : i # j => s[i] # s[j]}

\* the elements of a list
Range(s) == {s[i] : i \in 1..Len(s)}

\* collection.query(query_embeddings=[q], n_results=top_k, where=where): the ids of the
\* top_k nearest entries, closest first, each with its distance; entries at the same
\* distance come in any order
search_similar_chunks(query_embedding, top_k, document_id) ==
    LET hits == IF document_id # None
                THEN {e \in collection : e.document_id = document_id}
                ELSE collection
        dist(e) == Distance(query_embedding, e.embedding)
        n == Min(top_k, Cardinality(hits))
        ranked == {s \in UNION {Perms(T) : T \in {U \in SUBSET hits : Cardinality(U) = n}} :
                      /\ \A i \in 1..(n - 1) : dist(s[i]) <= dist(s[i + 1])
                      /\ \A e \in hits \ Range(s) : \A i \in 1..n : dist(s[i]) <= dist(e)}
    IN  {[ids       |-> [i \in 1..n |-> s[i].id],
          distances |-> [i \in 1..n |-> dist(s[i])]] : s \in ranked}

\* db.query(Chunk).filter(Chunk.id.in_(chunk_ids)).all(): the rows that exist, in the
\* order the database yields them (the query has no ORDER BY)
get_chunk_details(chunk_ids) ==
    Perms({row \in chunk_rows : row.id \in Range(chunk_ids)})

\* db.query(Document).filter(Document.id == document_id).first()
get_document(document_id) ==
    {d \in documents : d.id = document_id}

\* document.filename if document else 'Unknown'
document_name(document_id) ==
    IF get_document(document_id) # {}
    THEN (CHOOSE d \in get_document(document_id) : TRUE).filename
    ELSE <<"U", "n", "k", "n", "o", "w", "n">>

\* a rank without a distance counts as distance 0.0
similarity_score_missing_as_near(distances, i) ==
    One - (IF i <= Len(distances) THEN distances[i] ELSE 0)

\* 1.0 - (distances[i] if i < len(distances) else 1.0); i is the one-based position
similarity_score(distances, i) ==
    One - (IF i <= Len(distances) THEN distances[i] ELSE One)

\* the loop `for i, chunk in enumerate(chunks)` of semantic_search
build_results(found, distances) ==
    [i \in 1..Len(found) |->
        [chunk_id         |-> found[i].id,
         document_id      |-> found[i].document_id,
         document_name    |-> document_name(found[i].document_id),
         chunk_text       |-> found[i].chunk_text,
         similarity_score |-> Round4(similarity_score(distances, i)),
         chunk_index      |-> found[i].chunk_index]]

\* no call of semantic_search is the latest call
NoSearch ==
    /\ vector_results' = [ids |-> <<>>, distances |-> <<>>]
    /\ chunk_details' = <<>>
    /\ lookups' = 0
    /\ request' = NoRequest
    /\ failure' = "none"
    /\ semantic_results' = <<>>
    /\ collaborator_calls' = NoCalls

\* the relational store is asked also about an empty list of ids
no_chunk_ids_ignored(chunk_ids) == FALSE

\* if not chunk_ids
no_chunk_ids(chunk_ids) == chunk_ids = <<>>

\* StorageService.store_document
StoreDocument ==
    /\ call = "retrieval"
    /\ uuid_count < MaxUuids
    /\ \E language \in Languages :
          documents' = documents \cup {[id       |-> uuid_count + 1,
                                        filename |-> Filename,
                                        language |-> language]}
    /\ uuid_count' = uuid_count + 1
    /\ response' = [op |-> "store_document", document_id |-> uuid_count + 1]
    /\ NoSearch
    /\ UNCHANGED <<chunk_rows, collection>>
    /\ UNCHANGED <<selectVars, inputVars, pc, chunk_index, chunks, fixedVars, dynVars>>

\* StorageService.store_chunks, called as upload_document calls it: for a document just
\* stored, with the embeddings of the chunk texts.  The rows are committed before the
\* vector store is written; when collection.add raises, the rollback finds nothing to undo.
StoreChunks ==
    /\ call = "retrieval"
    /\ \E d \in documents, n \in 1..MaxBatch, raised \in BOOLEAN :
          /\ uuid_count + n <= MaxUuids
          /\ \E texts \in [1..n -> Phrases] :
                /\ chunk_rows' = chunk_rows \cup
                      {[id          |-> uuid_count + k,
                        document_id |-> d.id,
                        chunk_index |-> k - 1,
                        chunk_text  |-> texts[k]] : k \in 1..n}
                /\ collection' =
                      IF raised
                      THEN collection
                      ELSE collection \cup
                              {[id          |-> uuid_count + k,
                                embedding   |-> generate_embedding(texts[k]),
                                document_id |-> d.id,
                                chunk_index |-> k - 1] : k \in 1..n}
          /\ uuid_count' = uuid_count + n
          /\ response' = [op |-> "store_chunks", raised |-> raised]
    /\ NoSearch
    /\ UNCHANGED documents
    /\ UNCHANGED <<selectVars, inputVars, pc, chunk_index, chunks, fixedVars, dynVars>>

\* StorageService.delete_document: the document row and, by the cascade, its chunk rows
\* are deleted and committed before the vector store is asked to delete the ids; when
\* collection.delete raises, the rollback finds nothing to undo.
DeleteDocument ==
    /\ call = "retrieval"
    /\ \E document_id \in 1..uuid_count, raised \in BOOLEAN :
          LET chunk_ids == {row.id : row \in {r \in chunk_rows : r.document_id = document_id}}
          IN  /\ raised => chunk_ids # {}
              /\ documents' = documents \ get_document(document_id)
              /\ chunk_rows' = IF get_document(document_id) # {}
                               THEN {r \in chunk_rows : r.document_id # document_id}
                               ELSE chunk_rows
              /\ collection' = IF raised
                               THEN collection
                               ELSE {e \in collection : e.id \notin chunk_ids}
              /\ response' = [op |-> "delete_document", document_id |-> document_id,
                              raised |-> raised]
    /\ NoSearch
    /\ UNCHANGED uuid_count
    /\ UNCHANGED <<selectVars, inputVars, pc, chunk_index, chunks, fixedVars, dynVars>>

\* RAGService.semantic_search(query, top_k, document_id): every outcome of a call that
\* returns, with the locals it leaves and the calls it made
semantic_search(query, top_k, document_id) ==
    UNION {IF no_chunk_ids(found_vectors.ids)
           THEN {[vector_results |-> found_vectors,
                  chunk_details  |-> <<>>,
                  lookups        |-> 0,
                  calls          |-> [embedding |-> 1, vector_store |-> 1,
                                      chunk_details |-> 0, documents |-> 0],
                  response       |-> [op            |-> "semantic_search",
                                      query         |-> query,
                                      results       |-> <<>>,
                                      total_results |-> 0]]}
           ELSE {[vector_results |-> found_vectors,
                  chunk_details  |-> found,
                  lookups        |-> 1 + Len(found),
                  calls          |-> [embedding |-> 1, vector_store |-> 1,
                                      chunk_details |-> 1, documents |-> Len(found)],
                  response       |-> [op            |-> "semantic_search",
                                      query         |-> query,
                                      results       |-> build_results(found, found_vectors.distances),
                                      total_results |-> Len(build_results(found, found_vectors.distances))]]
                    : found \in get_chunk_details(found_vectors.ids)}
              : found_vectors \in search_similar_chunks(generate_embedding(query), top_k, document_id)}

\* RAGService.semantic_search(query, top_k, document_id)
SemanticSearch ==
    /\ call = "retrieval"
    /\ \E query \in Phrases, top_k \in 1..MaxTopK, document_id \in {None} \cup (1..uuid_count) :
          \E outcome \in semantic_search(query, top_k, document_id) :
             /\ vector_results' = outcome.vector_results
             /\ chunk_details' = outcome.chunk_details
             /\ lookups' = outcome.lookups
             /\ response' = outcome.response
             /\ request' = NoRequest
             /\ failure' = "none"
             /\ semantic_results' = outcome.response.results
             /\ collaborator_calls' = outcome.calls
    /\ UNCHANGED storeVars
    /\ UNCHANGED <<selectVars, inputVars, pc, chunk_index, chunks, fixedVars, dynVars>>

InitRag ==
    /\ call = "retrieval"
    /\ text = <<>>
    /\ default_chunk_size = DefaultChunkSize
    /\ default_overlap = DefaultOverlap
    /\ ChunkerIdle
    /\ StoresEmpty
    /\ SelectorIdle

NextRag == StoreDocument \/ StoreChunks \/ DeleteDocument \/ SemanticSearch

SpecRag == InitRag /\ [][NextRag]_vars

(***************************************************************************)
(* The retrieval orchestrator with all its operations: hybrid_search and   *)
(* get_context_for_query, each running semantic_search, on the stores as   *)
(* the storage operations leave them.  A retrieval call changes nothing in *)
(* the stores, so a run is followed up to its first one.                   *)
(***************************************************************************)
\* the filters handed to hybrid_search: None and {} behave alike; the keys are optional
Filters(ids) ==
    {EmptyDict}
        \cup {[language |-> l] : l \in Languages}
        \cup {[document_id |-> d] : d \in ids}
        \cup {[document_id |-> d, language |-> l] : d \in ids, l \in Languages}

\* if filters and 'language' in filters
has_language_filter(filters) == filters # EmptyDict /\ "language" \in DOMAIN filters

\* a result is kept also when its document has another language
keeps_result_of_any_language(result, language_filter) ==
    get_document(result.document_id) # {}

\* doc and doc.language == language_filter, doc = get_document(result['document_id'])
keeps_result(result, language_filter) ==
    \E doc \in get_document(result.document_id) : doc.language = language_filter

\* the results that are kept come last first
\* a filter that embeds the query and asks the vector store once more
filter_calls_backfilling(calls, results) ==
    [calls EXCEPT !.documents = @ + Len(results),
                  !.embedding = @ + 1,
                  !.vector_store = @ + 1]

\* the collaborator calls of the filter loop: self.storage.get_document once per
\* semantic result, nothing else
filter_calls(calls, results) ==
    [calls EXCEPT !.documents = @ + Len(results)]

filter_by_language_reversed(results, language_filter) ==
    LET kept(result) == keeps_result(result, language_filter)
        forward == SelectSeq(results, kept)
    IN  [i \in 1..Len(forward) |-> forward[Len(forward) + 1 - i]]

\* the loop `for result in results['results']` of hybrid_search
filter_by_language(results, language_filter) ==
    LET kept(result) == keeps_result(result, language_filter)
    IN  SelectSeq(results, kept)

\* RAGService.hybrid_search(query, top_k, filters)
HybridSearch ==
    /\ call = "retrieval"
    /\ pc = "ready"
    /\ pc' = "done"
    /\ \E query \in Phrases, top_k \in 1..MaxTopK, filters \in Filters(1..uuid_count) :
          \E outcome \in semantic_search(query, top_k, dict_get(filters, "document_id", None)) :
             LET results == outcome.response.results
                 filtered_results == filter_by_language(results, dict_get(filters, "language", "none"))
             IN  /\ vector_results' = outcome.vector_results
                 /\ chunk_details' = outcome.chunk_details
                 /\ lookups' = outcome.lookups
                 /\ request' = [op |-> "hybrid_search", query |-> query, top_k |-> top_k,
                                filters |-> filters]
                 /\ failure' = "none"
                 /\ semantic_results' = results
                 /\ IF has_language_filter(filters)
                    THEN /\ response' = [op            |-> "hybrid_search",
                                         query         |-> query,
                                         results       |-> filtered_results,
                                         total_results |-> Len(filtered_results)]
                         /\ collaborator_calls' = filter_calls(outcome.calls, results)
                    ELSE /\ response' = [outcome.response EXCEPT !.op = "hybrid_search"]
                         /\ collaborator_calls' = outcome.calls
    /\ UNCHANGED storeVars
    /\ UNCHANGED <<selectVars, inputVars, chunk_index, chunks, fixedVars, dynVars>>

\* the storage operations, up to the retrieval call
\* str(i) of a positive int
RECURSIVE str_of_int(_)
str_of_int(i) ==
    LET digits == <<"0", "1", "2", "3", "4", "5", "6", "7", "8", "9">>
    IN  IF i < 10 THEN <<digits[i + 1]>>
        ELSE str_of_int(i \div 10) \o <<digits[(i % 10) + 1]>>

\* f"[Context {i}]"
context_label(i) == <<"[", "C", "o", "n", "t", "e", "x", "t", " ">> \o str_of_int(i) \o <<"]">>

\* the three appends of the loop over enumerate(results['results'], 1), from result i on
RECURSIVE context_parts(_, _)
context_parts(results, i) ==
    IF i > Len(results) THEN <<>>
    ELSE <<context_label(i), results[i].chunk_text, <<>>>> \o context_parts(results, i + 1)

\* "\n".join(parts)
RECURSIVE join_lines(_)
join_lines(parts) ==
    IF parts = <<>> THEN <<>>
    ELSE IF Len(parts) = 1 THEN parts[1]
    ELSE parts[1] \o <<"\n">> \o join_lines(Tail(parts))

\* RAGService.get_context_for_query(query, top_k)
GetContextForQuery ==
    /\ call = "retrieval"
    /\ pc = "ready"
    /\ pc' = "done"
    /\ \E query \in Phrases, top_k \in 1..MaxTopK :
          \E outcome \in semantic_search(query, top_k, None) :
             /\ vector_results' = outcome.vector_results
             /\ chunk_details' = outcome.chunk_details
             /\ lookups' = outcome.lookups
             /\ collaborator_calls' = outcome.calls
             /\ failure' = "none"
             /\ semantic_results' = outcome.response.results
             /\ request' = [op |-> "get_context_for_query", query |-> query, top_k |-> top_k]
             /\ response' = [op      |-> "get_context_for_query",
                             query   |-> query,
                             context |-> join_lines(context_parts(outcome.response.results, 1))]
    /\ UNCHANGED storeVars
    /\ UNCHANGED <<selectVars, inputVars, chunk_index, chunks, fixedVars, dynVars>>

\* the collaborator calls a retrieval call with this outcome makes, any of which may raise
failure_points(op, outcome, filters) ==
    {"embedding", "vector_store"}
        \cup (IF outcome.calls.chunk_details > 0 THEN {"chunk_details"} ELSE {})
        \cup (IF outcome.calls.documents > 0 THEN {"documents"} ELSE {})
        \cup (IF op = "hybrid_search" /\ has_language_filter(filters)
                   /\ outcome.response.results # <<>>
               THEN {"filter"} ELSE {})

\* the calls made when the k-th get_document of the loop raises, or an earlier call
calls_until(at, outcome, k) ==
    CASE at = "embedding"     -> [NoCalls EXCEPT !.embedding = 1]
      [] at = "vector_store"  -> [NoCalls EXCEPT !.embedding = 1, !.vector_store = 1]
      [] at = "chunk_details" -> [outcome.calls EXCEPT !.documents = 0]
      [] at = "documents"     -> [outcome.calls EXCEPT !.documents = k]
      [] at = "filter"        -> [outcome.calls EXCEPT !.documents = @ + k]

\* an except clause that answers with an empty result set
empty_result_set(op, at) ==
    [op |-> op, results |-> <<>>, total_results |-> 0, context |-> <<>>]

\* semantic_search: `except Exception as e: logger.error(...); raise`; hybrid_search and
\* get_context_for_query catch nothing
raise_to_caller(op, at) ==
    [op |-> "raised", by |-> op, at |-> at]

\* a retrieval call during which a collaborator raises
FailedRetrieval ==
    /\ call = "retrieval"
    /\ pc = "ready"
    /\ pc' = "done"
    /\ \E op \in {"semantic_search", "hybrid_search", "get_context_for_query"},
          query \in Phrases, top_k \in 1..MaxTopK, filters \in Filters(1..uuid_count) :
          /\ op = "get_context_for_query" => filters = EmptyDict
          /\ op = "semantic_search" => ~has_language_filter(filters)
          /\ \E outcome \in semantic_search(query, top_k, dict_get(filters, "document_id", None)) :
                \E at \in failure_points(op, outcome, filters) :
                   \E k \in 1..(IF at \in {"documents", "filter"}
                                THEN Len(outcome.response.results) ELSE 1) :
                      /\ failure' = at
                      /\ collaborator_calls' = calls_until(at, outcome, k)
                      /\ response' = raise_to_caller(op, at)
                      /\ request' = [op |-> op]
    /\ vector_results' = [ids |-> <<>>, distances |-> <<>>]
    /\ chunk_details' = <<>>
    /\ lookups' = 0
    /\ semantic_results' = <<>>
    /\ UNCHANGED storeVars
    /\ UNCHANGED <<selectVars, inputVars, chunk_index, chunks, fixedVars, dynVars>>

Populate ==
    /\ pc = "ready"
    /\ (StoreDocument \/ StoreChunks \/ DeleteDocument)

NextRetrieval == Populate \/ HybridSearch \/ GetContextForQuery \/ FailedRetrieval

SpecRetrieval == InitRag /\ [][NextRetrieval]_vars

(***************************************************************************)
(* The result loop of semantic_search, and the filter loop of              *)
(* hybrid_search after it, on what the two stores may hand them: rows      *)
(* whose document row is there or is gone (delete_document commits between *)
(* the two queries of a search), and a vector-store answer with fewer      *)
(* distances than rows, down to none (`distances` absent).                 *)
(***************************************************************************)
\* the two documents the rows belong to
ResultDocuments ==
    {[id |-> 1, filename |-> Filename, language |-> "english"],
     [id |-> 2, filename |-> Filename, language |-> "arabic"]}

\* the rows get_chunk_details may return: distinct ids, each of one of the documents
ResultRows ==
    {rows \in UNION {[1..n -> [id          : 3..(2 + MaxBatch),
                              document_id : {1, 2},
                              chunk_index : {0},
                              chunk_text  : {<<"a">>}]] : n \in 0..MaxBatch} :
        \A i \in 1..Len(rows), j \in 1..Len(rows) : i # j => rows[i].id # rows[j].id}

\* the distances the vector store may return
ResultDistances ==
    UNION {[1..n -> {0, DistanceUnit, One}] : n \in 0..MaxBatch}

\* semantic_search from `chunks = self.storage.get_chunk_details(chunk_ids)` on
BuildResults ==
    /\ call = "build_results"
    /\ response.op = "none"
    /\ chunk_details # <<>>
    /\ response' = [op            |-> "semantic_search",
                    query         |-> <<"a">>,
                    results       |-> build_results(chunk_details, vector_results.distances),
                    total_results |-> Len(build_results(chunk_details, vector_results.distances))]
    /\ lookups' = 1 + Len(chunk_details)
    /\ request' = NoRequest
    /\ failure' = "none"
    /\ semantic_results' = build_results(chunk_details, vector_results.distances)
    /\ collaborator_calls' = [embedding |-> 1, vector_store |-> 1,
                              chunk_details |-> 1, documents |-> Len(chunk_details)]
    /\ UNCHANGED <<vector_results, chunk_details, storeVars>>
    /\ UNCHANGED <<selectVars, inputVars, pc, chunk_index, chunks, fixedVars, dynVars>>

InitResults ==
    /\ call = "build_results"
    /\ text = <<>>
    /\ default_chunk_size = DefaultChunkSize
    /\ default_overlap = DefaultOverlap
    /\ ChunkerIdle
    /\ SelectorIdle
    /\ documents \in SUBSET ResultDocuments
    /\ chunk_details \in ResultRows
    /\ chunk_rows = {chunk_details[k] : k \in 1..Len(chunk_details)}
    /\ collection = {}
    /\ uuid_count = 2 + MaxBatch
    /\ \E distances \in ResultDistances :
          vector_results = [ids |-> [k \in 1..Len(chunk_details) |-> chunk_details[k].id],
                            distances |-> distances]
    /\ response = [op |-> "none"]
    /\ lookups = 0
    /\ request = NoRequest
    /\ failure = "none"
    /\ semantic_results = <<>>
    /\ collaborator_calls = NoCalls

\* hybrid_search from `if filters and 'language' in filters` on, on the results its
\* semantic_search returned
FilterResults ==
    /\ call = "build_results"
    /\ response.op = "semantic_search"
    /\ \E language_filter \in Languages :
          /\ request' = [op |-> "hybrid_search", query |-> response.query, top_k |-> MaxBatch,
                         filters |-> [language |-> language_filter]]
          /\ response' = [op            |-> "hybrid_search",
                          query         |-> response.query,
                          results       |-> filter_by_language(response.results, language_filter),
                          total_results |-> Len(filter_by_language(response.results,
                                                                   language_filter))]
    /\ collaborator_calls' = filter_calls(collaborator_calls, response.results)
    /\ UNCHANGED <<vector_results, chunk_details, lookups, semantic_results, failure, storeVars>>
    /\ UNCHANGED <<selectVars, inputVars, pc, chunk_index, chunks, fixedVars, dynVars>>

NextResults == BuildResults \/ FilterResults

SpecResults == InitResults /\ [][NextResults]_vars

(***************************************************************************)
(* DocumentProcessor.detect_language.  A text is here a sequence of code   *)
(* points, and a character class of a regular expression a set of ranges   *)
(* <<first, last>> of code points.                                         *)
(***************************************************************************)
MaxDetectLen == 3

\* arabic_pattern = re.compile(r'[\u0600-\u06FF]')
ArabicPattern == {<<1536, 1791>>}

\* english_pattern = re.compile(r'[a-zA-Z]')
EnglishPattern == {<<97, 122>>, <<65, 90>>}

\* the class matches the character
matches_class(c, class) == \E range \in class : range[1] <= c /\ c <= range[2]

\* bool(pattern.search(text)) for a pattern that is one character class
search(class, t) == \E i \in 1..Len(t) : matches_class(t[i], class)

\* a detector that asks for Arabic first
detect_language_arabic_first(t) ==
    LET has_arabic  == search(ArabicPattern, t)
        has_english == search(EnglishPattern, t)
    IN  IF has_arabic THEN "arabic"
        ELSE IF has_arabic /\ has_english THEN "mixed"
        ELSE IF has_english THEN "english"
        ELSE "unknown"

\* DocumentProcessor.detect_language(text)
detect_language(t) ==
    LET has_arabic  == search(ArabicPattern, t)
        has_english == search(EnglishPattern, t)
    IN  IF has_arabic /\ has_english THEN "mixed"
        ELSE IF has_arabic THEN "arabic"
        ELSE IF has_english THEN "english"
        ELSE "unknown"

\* the first and the last code point of the Arabic block, a letter inside it (beh) and
\* its neighbours outside; a, z, A, Z and their neighbours @ [ ` {; a digit, a space,
\* and a Latin letter outside ASCII (E with acute)
DetectAlphabet ==
    {1535, 1536, 1576, 1791, 1792, 64, 65, 90, 91, 96, 97, 122, 123, 49, 32, 201}

\* test_language_detection: arabic_text
ArabicTestText == <<1607, 1584, 1575, 32, 1606, 1589, 32, 1593, 1585, 1576, 1610>>

\* test_language_detection: mixed_text, "This is English and " followed by Arabic words
MixedTestText ==
    <<84, 104, 105, 115, 32, 105, 115, 32, 69, 110, 103, 108, 105, 115, 104, 32, 97, 110,
      100, 32, 1607, 1584, 1575, 32, 1593, 1585, 1576, 1610>>

\* test_language_detection: english_text
EnglishTestText ==
    <<84, 104, 105, 115, 32, 105, 115, 32, 97, 110, 32, 69, 110, 103, 108, 105, 115, 104,
      32, 115, 101, 110, 116, 101, 110, 99, 101, 46>>

DetectLanguage ==
    /\ call = "detect_language"
    /\ pc = "ready"
    /\ pc' = "done"
    /\ response' = [op |-> "detect_language", language |-> detect_language(text)]
    /\ UNCHANGED <<vector_results, chunk_details, lookups, request, semantic_results,
                   collaborator_calls, failure, storeVars>>
    /\ UNCHANGED <<selectVars, inputVars, chunk_index, chunks, fixedVars, dynVars>>

InitDetect ==
    /\ call = "detect_language"
    /\ text \in UNION {[1..n -> DetectAlphabet] : n \in 0..MaxDetectLen}
                   \cup {ArabicTestText, MixedTestText, EnglishTestText}
    /\ default_chunk_size = DefaultChunkSize
    /\ default_overlap = DefaultOverlap
    /\ ChunkerIdle
    /\ StoresEmpty
    /\ SelectorIdle

NextDetect == DetectLanguage

SpecDetect == InitDetect /\ [][NextDetect]_vars

(***************************************************************************)
(* Properties of fixed_chunking.                                           *)
(***************************************************************************)
\* the precondition of the fixed-window chunker: 0 <= overlap < size
ValidConfig == 0 <= default_overlap /\ default_overlap < default_chunk_size

\* the advance of the window start
Step == default_chunk_size - default_overlap

CeilDiv(n, d) == (n + d - 1) \div d

FixedReturned == call = "fixed_chunking" /\ pc = "done"

\* C1: for a text of n >= 1 words and 0 <= overlap < size, fixed_chunking returns
\* exactly one chunk for each k >= 0 with k*(size-overlap) < n, and the k-th chunk is
\* the words [k*(size-overlap) : min(k*(size-overlap)+size, n)] joined by single spaces.
C1_FixedWindows ==
    (FixedReturned /\ ValidConfig /\ Len(split(text)) >= 1) =>
        LET ws == split(text)
            n  == Len(ws)
        IN  /\ Len(chunks) = Cardinality({k \in 0..n : k * Step < n})
            /\ Len(windows) = Len(chunks)
            /\ \A k \in 0..(Len(chunks) - 1) :
                  LET lo == k * Step
                      hi == Min(k * Step + default_chunk_size, n)
                  IN  /\ windows[k + 1] = <<lo, hi>>
                      /\ chunks[k + 1].text = join(SubSeq(ws, lo + 1, hi))

\* scenario 1: 20 words, size 10, overlap 2 give the windows [0:10], [8:18], [16:20]
C1_Scenario1 ==
    /\ FixedReturned
    /\ text = Scenario1Text
    /\ Len(chunks) = 3
    /\ windows = << <<0, 10>>, <<8, 18>>, <<16, 20>> >>
    /\ chunks[3].text = << "q", " ", "r", " ", "s", " ", "t" >>

\* C4: a configuration with overlap >= size is rejected as a configuration error:
\* fixed_chunking never enters its loop and never appends a chunk under it.
C4_InvalidConfigRejected ==
    (call = "fixed_chunking" /\ default_overlap >= default_chunk_size) =>
        (pc # "fixed_loop" /\ chunks = <<>>)

\* C5: with 0 <= overlap < size the window start strictly increases on every
\* iteration, at most ceil(n / (size-overlap)) chunks are appended for n words, and
\* the call returns.
C5_FixedTerminates ==
    /\ [][(ValidConfig /\ pc = "fixed_loop" /\ pc' = "fixed_loop") => start_idx' > start_idx]_vars
    /\ []((ValidConfig /\ call = "fixed_chunking") => Len(chunks) <= CeilDiv(Len(words), Step))
    /\ <>(ValidConfig => FixedReturned)

\* a call that went through several iterations and returned with ceil(n/step) chunks
C5_ReturnedAfterLoop ==
    /\ FixedReturned
    /\ ValidConfig
    /\ Len(chunks) >= 3
    /\ Len(chunks) = CeilDiv(Len(words), Step)
    /\ start_idx >= Len(words)

\* the word positions a window covers
Positions(w) == {p \in 0..(w[2] - 1) : p >= w[1]}

\* C7: with 0 <= overlap < size, whenever chunk i is a full window of `size` words,
\* the last `overlap` words of chunk i are the first `overlap` words of chunk i+1, and
\* the two chunks have exactly these `overlap` word positions in common.
C7_ConsecutiveOverlap ==
    (call = "fixed_chunking" /\ ValidConfig) =>
        \A i \in 1..(Len(chunks) - 1) :
            (windows[i][2] - windows[i][1] = default_chunk_size) =>
                LET a  == split(chunks[i].text)
                    b  == split(chunks[i + 1].text)
                    ov == default_overlap
                IN  /\ Len(a) = default_chunk_size
                    /\ Len(b) >= ov
                    /\ SubSeq(a, Len(a) - ov + 1, Len(a)) = SubSeq(b, 1, ov)
                    /\ Positions(windows[i]) \cap Positions(windows[i + 1])
                         = {p \in Positions(windows[i]) : p >= windows[i][2] - ov}
                    /\ Positions(windows[i]) \cap Positions(windows[i + 1])
                         = {p \in Positions(windows[i + 1]) : p < windows[i + 1][1] + ov}
                    /\ Cardinality(Positions(windows[i]) \cap Positions(windows[i + 1])) = ov

\* two full windows that overlap, followed by a third chunk
C7_OverlappingWindows ==
    /\ FixedReturned
    /\ ValidConfig
    /\ default_overlap >= 1
    /\ Len(chunks) >= 3
    /\ windows[2][2] - windows[2][1] = default_chunk_size

(***************************************************************************)
(* Properties of dynamic_chunking.                                         *)
(***************************************************************************)
DynamicReturned == call = "dynamic_chunking" /\ pc = "done"

WordCount(s) == Len(split(s))

\* C6: a chunk of dynamic_chunking has more than `size` words only when it consists
\* of exactly one sentence whose own word count exceeds `size`; every paragraph chunk
\* and every chunk of two or more sentences has at most `size` words, and a chunk of
\* sentences is these sentences whole, joined by single spaces.
C6_SoftCap ==
    call = "dynamic_chunking" =>
        \A i \in 1..Len(chunks) :
            LET c     == chunks[i]
                sents == chunk_origin[i].sentences
            IN  /\ WordCount(c.text) > default_chunk_size =>
                      /\ c.metadata.type = "multi-sentence"
                      /\ Len(sents) = 1
                      /\ WordCount(sents[1]) > default_chunk_size
                /\ c.metadata.type = "paragraph" => WordCount(c.text) <= default_chunk_size
                /\ Len(sents) >= 2 => WordCount(c.text) <= default_chunk_size
                /\ c.metadata.type = "multi-sentence" =>
                      /\ c.text = join(sents)
                      /\ \A k \in 1..Len(sents) :
                            \E m \in 1..Len(para_sentences[chunk_origin[i].para]) :
                                para_sentences[chunk_origin[i].para][m] = sents[k]

\* one call that returned a chunk of two sentences within the budget and an oversized
\* chunk of one sentence
C6_PackedAndOversized ==
    /\ DynamicReturned
    /\ \E i \in 1..Len(chunks) :
          Len(chunk_origin[i].sentences) >= 2 /\ WordCount(chunks[i].text) = default_chunk_size
    /\ \E i \in 1..Len(chunks) :
          Len(chunk_origin[i].sentences) = 1 /\ WordCount(chunks[i].text) > default_chunk_size

\* C8: the chunk at position i of a returned chunk sequence has index = i (zero-based,
\* no gaps, across paragraphs and across the two branches) and a non-empty text.
C8_ChunkDataModel ==
    pc = "done" =>
        \A i \in 1..Len(chunks) :
            /\ chunks[i].index = i - 1
            /\ chunks[i].text # <<>>

\* a returned sequence in which a paragraph chunk is followed by two chunks of
\* sentences of the next paragraph
C8_AcrossBranches ==
    /\ DynamicReturned
    /\ Len(chunks) >= 3
    /\ chunks[1].metadata.type = "paragraph"
    /\ chunks[2].metadata.type = "multi-sentence"
    /\ chunks[3].metadata.type = "multi-sentence"
    /\ chunk_origin[3].para = 2

\* the words of the chunks i.., in order
RECURSIVE ChunkWords(_, _)
ChunkWords(cs, i) ==
    IF i > Len(cs) THEN <<>> ELSE split(cs[i].text) \o ChunkWords(cs, i + 1)

\* the words of the first chunk, then of every later chunk after its first `skip` words
RECURSIVE Rejoin(_, _, _)
Rejoin(cs, i, skip) ==
    IF i > Len(cs) THEN <<>>
    ELSE LET ws == split(cs[i].text)
         IN  (IF i = 1 THEN ws ELSE SubSeq(ws, skip + 1, Len(ws))) \o Rejoin(cs, i + 1, skip)

\* C9: round trip.  The words of the chunks of dynamic_chunking, in index order, are
\* the words of the source; the words of the first chunk of fixed_chunking followed by
\* the words of every later chunk after its first `overlap` words are the words of the
\* source.
C9_RoundTrip ==
    /\ DynamicReturned => ChunkWords(chunks, 1) = split(text)
    /\ (FixedReturned /\ ValidConfig) => Rejoin(chunks, 1, default_overlap) = split(text)

\* the non-whitespace positions of s
Solid(s) == {i \in 1..Len(s) : ~IsSpace(s[i])}

\* a blank line lies between the consecutive non-whitespace positions p < q: the
\* whitespace between them holds two newlines or more
BlankLineBetween(s, p, q) == Cardinality({m \in (p + 1)..(q - 1) : s[m] = "\n"}) >= 2

\* the paragraphs of s: the stretches of text that blank lines delimit, without the
\* whitespace around them
BlankLineParagraphs(s) ==
    LET firsts == {p \in Solid(s) :
                      \A q \in Solid(s) :
                          (q < p /\ Solid(s) \cap ((q + 1)..(p - 1)) = {}) => BlankLineBetween(s, q, p)}
        lasts  == {p \in Solid(s) :
                      \A q \in Solid(s) :
                          (p < q /\ Solid(s) \cap ((p + 1)..(q - 1)) = {}) => BlankLineBetween(s, p, q)}
    IN  [k \in 1..Cardinality(firsts) |-> SubSeq(s, Nth(firsts, k), Nth(lasts, k))]

\* C10: dynamic_chunking splits the text into paragraphs on blank-line boundaries,
\* discards the empty ones, and emits every paragraph of at most `size` words as
\* exactly one chunk of type 'paragraph' whose text is the stripped paragraph, the
\* chunks following the order of the paragraphs.
C10_ParagraphChunks ==
    DynamicReturned =>
        /\ paragraphs = BlankLineParagraphs(text)
        /\ \A j \in 1..Len(paragraphs) :
              WordCount(paragraphs[j]) <= default_chunk_size =>
                  /\ Cardinality({i \in 1..Len(chunks) : chunk_origin[i].para = j}) = 1
                  /\ \A i \in 1..Len(chunks) :
                        chunk_origin[i].para = j =>
                            /\ chunks[i].metadata.type = "paragraph"
                            /\ chunks[i].metadata.strategy = "dynamic"
                            /\ chunks[i].text = paragraphs[j]
        /\ \A i \in 1..Len(chunks) :
              chunks[i].metadata.type = "paragraph" =>
                  WordCount(paragraphs[chunk_origin[i].para]) <= default_chunk_size
        /\ \A i \in 1..(Len(chunks) - 1) : chunk_origin[i].para <= chunk_origin[i + 1].para

\* scenario 2: "Para A.\n\nPara B." gives exactly two chunks, both of type 'paragraph'
C10_Scenario2 ==
    /\ DynamicReturned
    /\ text = Scenario2Text
    /\ Len(chunks) = 2
    /\ chunks[1].metadata.type = "paragraph"
    /\ chunks[2].metadata.type = "paragraph"
    /\ chunks[1].text = << "P", "a", "r", "a", " ", "A", "." >>
    /\ chunks[2].text = << "P", "a", "r", "a", " ", "B", "." >>

(***************************************************************************)
(* Properties of semantic_search.                                          *)
(***************************************************************************)
SearchReturned == response.op = "semantic_search"

\* the chunk_ids of the returned results, in their order
ResultIds == [k \in 1..Len(response.results) |-> response.results[k].chunk_id]

\* the ids the vector store returned that have a row in the relational store
\* (chunk_details holds exactly those rows)
HasRow(id) == \E k \in 1..Len(chunk_details) : chunk_details[k].id = id

\* the distance the vector store returned for an id of vector_results
DistanceOf(id) ==
    vector_results.distances[CHOOSE k \in 1..Len(vector_results.ids) : vector_results.ids[k] = id]

\* C2: the chunk_ids of the results of semantic_search are the ids the vector-store
\* query returned, in the vector store's order (closest first), whatever order the
\* relational store returns the records in.  Stated in its weakest reading: the ids
\* that have a record keep the order the vector store gave them.
C2_VectorOrderPreserved ==
    SearchReturned => ResultIds = SelectSeq(vector_results.ids, HasRow)

\* C3: every result of semantic_search carries as similarity_score 1.0 minus the
\* distance the vector store returned for that result's own chunk_id (rounded to
\* four decimals), also when the relational store returns the records in another
\* order or lacks the record of a returned id.
C3_ScoreOfOwnDistance ==
    SearchReturned =>
        \A k \in 1..Len(response.results) :
            response.results[k].similarity_score =
                Round4(One - DistanceOf(response.results[k].chunk_id))

(***************************************************************************)
(* The strategy selector                                                   *)
(***************************************************************************)
\* decide_strategy has returned
Decided == call = "decide_strategy" /\ pc = "done"

\* C11: decide_strategy returns 'dynamic' exactly when the complexity score is above
\* 0.6 or has_structure is true, and 'fixed' otherwise, and nothing else.  The
\* comparison is strict: a text whose score is exactly 0.6 and that has no structure is
\* 'fixed'; 'plain short sentence.' is 'fixed'.  The score is the analyzer's binary64
\* value; wherever the exact mean of the two signals is not 3/5 itself, the decision
\* is also the one exact arithmetic gives.
C11_DecisionRule ==
    Decided =>
        /\ strategy \in {"fixed", "dynamic"}
        /\ strategy = "dynamic" <=> (float_gt(complexity_score, Float06) \/ has_structure)
        /\ (complexity_score = Float06 /\ ~has_structure) => strategy = "fixed"
        /\ text = PlainText => strategy = "fixed"
        /\ LET sign == mean_against_three_fifths(text, split_sentences_with(text, punkt))
           IN  sign # 0 => (strategy = "dynamic" <=> (sign > 0 \/ has_structure))

\* a text of six distinct words in one sentence scores exactly 0.6 and is 'fixed'
C11_AtThreshold ==
    /\ Decided
    /\ text = SixWordsText
    /\ complexity_score = Float06
    /\ ~has_structure
    /\ strategy = "fixed"

\* the lines of the text, as pairs of their first and last position: the stretches
\* without a newline that a newline or an end of the text bounds on both sides
LineSpans ==
    {span \in (1..(Len(text) + 1)) \X (0..Len(text)) :
        /\ span[2] >= span[1] - 1
        /\ span[1] = 1 \/ text[span[1] - 1] = "\n"
        /\ span[2] = Len(text) \/ text[span[2] + 1] = "\n"
        /\ \A k \in span[1]..span[2] : text[k] # "\n"}

\* the positions of a line where a word begins
WordsOfLine(span) ==
    {k \in span[1]..span[2] :
        ~IsSpace(text[k]) /\ (k = span[1] \/ IsSpace(text[k - 1]))}

\* the line holds a character that is not whitespace, fewer than 10 words, and either a
\* cased character and no lower-case one, or a colon as its last character that is not
\* whitespace
HeadingLine(span) ==
    /\ \E k \in span[1]..span[2] : ~IsSpace(text[k])
    /\ Cardinality(WordsOfLine(span)) < 10
    /\ \/ /\ \E k \in span[1]..span[2] : IsUpperLetter(text[k])
          /\ \A k \in span[1]..span[2] : ~IsLowerLetter(text[k])
       \/ \E k \in span[1]..span[2] :
             text[k] = ":" /\ \A j \in (k + 1)..span[2] : IsSpace(text[j])

\* the line begins with optional whitespace, one or more of '-', '*', the bullet or a
\* digit, then '.' or ')', then whitespace
ListLine(span) ==
    \E a \in span[1]..span[2], b \in span[1]..span[2] :
        /\ a < b
        /\ b < span[2]
        /\ \A k \in span[1]..(a - 1) : IsSpace(text[k])
        /\ \A k \in a..(b - 1) : text[k] \in {"-", "*", Bullet} \cup Digits
        /\ text[b] \in {".", ")"}
        /\ IsSpace(text[b + 1])

\* C12: has_structure is true exactly when some non-empty line has fewer than 10 words
\* and is all-uppercase or ends with a colon, or some line matches the list pattern;
\* a text with an all-caps heading line, and a text with a heading and bullet lines,
\* is classified 'dynamic'.
C12_StructureFlag ==
    Decided =>
        /\ has_structure <=> \E span \in LineSpans : HeadingLine(span) \/ ListLine(span)
        /\ text \in {HeadingText, ComplexText} => (has_structure /\ strategy = "dynamic")

\* the heading of 'ALL CAPS HEADING', a blank line and a body makes the text 'dynamic'
C12_HeadingFires ==
    /\ Decided
    /\ text = HeadingText
    /\ has_structure
    /\ ~float_gt(complexity_score, Float06)
    /\ strategy = "dynamic"

AgreesWith(x, q) ==
    IF q.num = 0 THEN x = FloatZero
    ELSE /\ x # FloatZero
         /\ LET m == 2 * digit_at(x.bits, 1) + x.bits[10]
                scaled == q.num * Pow2(10 - x.exp)
            IN  (m - 1) * q.den <= scaled /\ scaled <= (m + 1) * q.den

C15_NonEmptyText ==
    (FixedReturned /\ ValidConfig /\ text # <<>>) => Len(chunks) >= 1

\* C15, amended: for every text that holds a character other than whitespace and every
\* configuration with overlap < size, fixed_chunking produces at least one chunk.
C15_TextWithAWord ==
    (FixedReturned /\ ValidConfig /\ \E i \in 1..Len(text) : ~IsSpace(text[i])) =>
        Len(chunks) >= 1

\* one word between whitespace gives one chunk
C15_OneWord ==
    /\ FixedReturned
    /\ ValidConfig
    /\ text = <<" ", "a", " ">>
    /\ Len(chunks) = 1
    /\ chunks[1].text = <<"a">>

\* a call of one of the entry points has returned its chunks
Returned == pc = "done"

\* C16: the empty text yields the empty chunk sequence and no error, from
\* fixed_chunking, from dynamic_chunking and from chunk_text with strategy 'auto' (and
\* 'fixed' and 'dynamic'), for every size and overlap, overlap >= size included: no
\* chunk is ever appended, nothing is raised, and no loop has anything to iterate on.
C16_EmptyText ==
    (text = <<>> /\ requested # "semantic") =>
        /\ chunks = <<>>
        /\ pc \in {"ready", "dynamic_loop", "done"}
        /\ pc = "dynamic_loop" => paragraphs = <<>>
        /\ requested = "auto" =>
              /\ complexity_score = FloatZero
              /\ strategy = "fixed"
              /\ call = "fixed_chunking"

\* chunk_text('', 'auto') has returned [] on an engine with overlap >= size
C16_AutoReturnsEmpty ==
    /\ Returned
    /\ text = <<>>
    /\ requested = "auto"
    /\ call = "fixed_chunking"
    /\ default_overlap >= default_chunk_size
    /\ chunks = <<>>

\* C17: an unrecognized strategy tag is rejected as a configuration error when the
\* engine is constructed, not when it is called: no call on a constructed engine ends in
\* the rejection of its tag.
C17_RejectedAtConstruction ==
    ~(call = "chunk_text" /\ pc = "raised")

\* the chunks fixed_chunking returns for a text, in closed form: one window every
\* size - overlap words
FixedChunksOf(s, size, overlap) ==
    LET ws == split(s)
        n  == IF ws = <<>> THEN 0 ELSE CeilDiv(Len(ws), size - overlap)
    IN  [k \in 1..n |-> fixed_chunk(ws, (k - 1) * (size - overlap), k - 1, size)]

\* C18: chunk_text dispatches exhaustively on the strategy tag: 'fixed' returns exactly
\* what fixed_chunking returns for the text, 'dynamic' exactly what dynamic_chunking
\* returns, 'auto' the output of the chunker that decide_strategy(text, metadata)
\* names; every returned chunk carries as metadata.strategy the strategy that was used.
C18_Dispatch ==
    (Returned /\ requested \in {"fixed", "dynamic", "auto"}) =>
        LET used == IF requested = "auto" THEN decide_strategy(text, metadata, punkt)
                    ELSE requested
        IN  /\ strategy = used
            /\ \A i \in 1..Len(chunks) : chunks[i].metadata.strategy = used
            /\ used = "fixed" =>
                  /\ call = "fixed_chunking"
                  /\ chunks = FixedChunksOf(text, default_chunk_size, default_overlap)
            /\ used = "dynamic" =>
                  /\ call = "dynamic_chunking"
                  /\ paragraphs = split_paragraphs(text)
                  /\ Len(para_sentences) = Len(paragraphs)
                  /\ \A i \in 1..Len(chunks) :
                        chunks[i].metadata.type = "paragraph" =>
                            chunks[i].text = paragraphs[chunk_origin[i].para]

\* chunk_text with 'auto' on a text with a heading has returned the two paragraph
\* chunks of dynamic_chunking
C18_AutoDynamic ==
    /\ Returned
    /\ requested = "auto"
    /\ text = HeadingText
    /\ strategy = "dynamic"
    /\ Len(chunks) = 2
    /\ chunks[2].metadata.strategy = "dynamic"
    /\ chunks[2].text = <<"B", "o", "d", "y", " ", "t", "e", "x", "t", " ", "h", "e", "r", "e", ".">>

(***************************************************************************)
(* Retrieval on missing data                                               *)
(***************************************************************************)
\* C19: when the vector-store query returns no ids (no chunk stored, or a document_id
\* filter that matches nothing), semantic_search returns no results and
\* total_results 0 with the query echoed back, raises nothing, and makes no query to
\* the relational store.
C19_NoIds ==
    (SearchReturned /\ vector_results.ids = <<>>) =>
        /\ response.results = <<>>
        /\ response.total_results = 0
        /\ response.query \in Phrases
        /\ lookups = 0
        /\ chunk_details = <<>>

\* a search filtered by a document that has no chunk, while another document has chunks
C19_FilterMatchesNothing ==
    /\ SearchReturned
    /\ collection # {}
    /\ vector_results.ids = <<>>
    /\ response.results = <<>>
    /\ response.total_results = 0

\* C20: missing optional data degrades to the documented defaults without failing
\* the request: a result whose rank has no distance gets similarity_score exactly 0.0,
\* a result whose parent document is not found gets document_name 'Unknown', and in
\* both cases the result is returned with the others.
C20_Defaults ==
    SearchReturned =>
        /\ Len(response.results) = Len(chunk_details)
        /\ response.total_results = Len(chunk_details)
        /\ \A k \in 1..Len(response.results) :
              /\ response.results[k].chunk_id = chunk_details[k].id
              /\ k > Len(vector_results.distances) =>
                    response.results[k].similarity_score = 0
              /\ (\A d \in documents : d.id # chunk_details[k].document_id) =>
                    response.results[k].document_name = <<"U", "n", "k", "n", "o", "w", "n">>

\* two results: the first with its distance and its document, the second with neither
C20_BothDefaults ==
    /\ SearchReturned
    /\ Len(response.results) = 2
    /\ Len(vector_results.distances) = 1
    /\ response.results[1].document_name = Filename
    /\ response.results[1].similarity_score = Round4(One - DistanceUnit)
    /\ response.results[2].document_name = <<"U", "n", "k", "n", "o", "w", "n">>
    /\ response.results[2].similarity_score = 0

(***************************************************************************)
(* hybrid_search                                                           *)
(***************************************************************************)
\* hybrid_search has returned
HybridReturned == response.op = "hybrid_search"

\* h is s with some elements left out, the others in their order
IsSubsequence(h, s) ==
    \E f \in [1..Len(h) -> 1..Len(s)] :
        /\ \A i \in 1..Len(h) : h[i] = s[f[i]]
        /\ \A i \in 1..(Len(h) - 1) : f[i] < f[i + 1]

\* C21: the results of hybrid_search are an order-preserving subsequence of the
\* results of semantic_search(query, top_k, filters.document_id) on the same stores, so
\* there are no more of them than semantic results and no more than top_k;
\* total_results is the length of the returned list; without a 'language' key in
\* filters the hybrid results are the semantic results.
C21_HybridSubsequence ==
    HybridReturned =>
        /\ IsSubsequence(response.results, semantic_results)
        /\ Len(response.results) <= Len(semantic_results)
        /\ Len(response.results) <= request.top_k
        /\ response.total_results = Len(response.results)
        /\ "language" \notin DOMAIN request.filters => response.results = semantic_results

\* two semantic results of documents in two languages, of which the filter keeps the
\* second
C21_SecondKept ==
    /\ HybridReturned
    /\ Len(semantic_results) = 2
    /\ "language" \in DOMAIN request.filters
    /\ response.results = <<semantic_results[2]>>

\* the semantic result has a parent document, and its language is the one asked for
ParentMatches(result, language_filter) ==
    \E d \in documents : d.id = result.document_id /\ d.language = language_filter

\* C22: with filters.language present, hybrid_search keeps exactly the semantic results
\* whose parent document exists and has the language of the filter: every returned
\* result matches, every matching semantic result is returned, a result whose parent
\* document is missing is discarded; when no semantic result matches, the list is empty
\* and total_results is 0.
C22_LanguageFilter ==
    (HybridReturned /\ "language" \in DOMAIN request.filters) =>
        LET matching == {k \in 1..Len(semantic_results) :
                            ParentMatches(semantic_results[k], request.filters.language)}
        IN  /\ \A i \in 1..Len(response.results) :
                  ParentMatches(response.results[i], request.filters.language)
            /\ \A k \in matching :
                  \E i \in 1..Len(response.results) : response.results[i] = semantic_results[k]
            /\ Len(response.results) = Cardinality(matching)
            /\ response.total_results = Cardinality(matching)
            /\ matching = {} => response.results = <<>>

\* of two semantic results the one whose parent document is gone is discarded
C22_MissingParentDiscarded ==
    /\ HybridReturned
    /\ Len(semantic_results) = 2
    /\ semantic_results[2].document_name = <<"U", "n", "k", "n", "o", "w", "n">>
    /\ response.results = <<semantic_results[1]>>
    /\ response.total_results = 1

\* C23: a semantic_search call makes one embedding call, one vector-store query and
\* one parent-document lookup per returned result; hybrid_search makes no further
\* embedding call or vector-store query, whatever its language filter discards: it
\* adds only the parent-document lookups of its filter loop.
C23_CallCounts ==
    (SearchReturned \/ HybridReturned) =>
        /\ collaborator_calls.embedding = 1
        /\ collaborator_calls.vector_store = 1
        /\ collaborator_calls.chunk_details <= 1
        /\ SearchReturned => collaborator_calls.documents = Len(response.results)
        /\ HybridReturned =>
              collaborator_calls.documents =
                  IF "language" \in DOMAIN request.filters
                  THEN 2 * Len(semantic_results)
                  ELSE Len(semantic_results)

\* the language filter discarded both results of a top_k = 2 search, and the vector
\* store was not asked again
C23_AllDiscarded ==
    /\ HybridReturned
    /\ request.top_k = 2
    /\ Len(semantic_results) = 2
    /\ response.results = <<>>
    /\ collaborator_calls.vector_store = 1
    /\ collaborator_calls.embedding = 1

(***************************************************************************)
(* get_context_for_query                                                   *)
(***************************************************************************)
ContextReturned == response.op = "get_context_for_query"

\* the label, the chunk text and a blank line for each result from result i on
RECURSIVE LabelledBlocks(_, _)
LabelledBlocks(results, i) ==
    IF i > Len(results) THEN <<>>
    ELSE context_label(i) \o <<"\n">> \o results[i].chunk_text \o <<"\n", "\n">>
            \o LabelledBlocks(results, i + 1)

\* C24: get_context_for_query returns, in the order of the results of its
\* semantic_search, each chunk text preceded by its label '[Context i]' and followed by
\* a blank line, the last result included, and the empty string without results.
C24_LabelledBlocks ==
    ContextReturned => response.context = LabelledBlocks(semantic_results, 1)

(***************************************************************************)
(* collaborator failures                                                   *)
(***************************************************************************)
\* C25: when the embedding provider, the vector store or the relational store raises
\* during semantic_search, hybrid_search or get_context_for_query, the call ends at
\* that step with the failure propagated to the caller: it returns no result set,
\* partial or empty, and no context string.
C25_FailuresPropagate ==
    failure # "none" =>
        /\ response.op = "raised"
        /\ response.at = failure
        /\ response.by = request.op
        /\ ~SearchReturned /\ ~HybridReturned /\ ~ContextReturned
        /\ DOMAIN response \cap {"results", "total_results", "context"} = {}

\* the second get_document of the language filter of hybrid_search has raised, after
\* the semantic search had built two results
C25_FilterLookupRaised ==
    /\ failure = "filter"
    /\ request.op = "hybrid_search"
    /\ collaborator_calls.documents = 4
    /\ response.op = "raised"

(***************************************************************************)
(* delete_document                                                         *)
(***************************************************************************)
\* delete_document(d) has returned without raising
DeleteReturned(d) ==
    /\ response.op = "delete_document"
    /\ response.document_id = d
    /\ ~response.raised

\* neither store holds document d or a chunk of it
NoTraceOf(d) ==
    /\ \A doc \in documents : doc.id # d
    /\ \A row \in chunk_rows : row.document_id # d
    /\ \A entry \in collection : entry.document_id # d

\* C26: when delete_document(d) has returned successfully the relational store holds
\* neither document d nor a chunk of d, and the vector store holds no entry of a chunk
\* of d (so that no search can find a chunk of d any more).
C26_CascadingDelete ==
    \A d \in 1..MaxUuids : DeleteReturned(d) => NoTraceOf(d)

(***************************************************************************)
(* the two stores                                                          *)
(***************************************************************************)
\* C29: under any sequence of store_chunks and delete_document calls, those in which
\* the vector-store step raises included, the chunk ids of the relational store are
\* the ids of the vector store in every reachable state: no chunk rows are committed
\* without their vectors and no vectors are left behind for deleted chunks.
C29_StoresConsistent ==
    {row.id : row \in chunk_rows} = {entry.id : entry \in collection}

(***************************************************************************)
(* fixed_chunking: the last chunk                                          *)
(***************************************************************************)
\* C30: for 0 <= overlap < size, every chunk of fixed_chunking after the first holds a
\* word position of the source that the chunk before it does not hold.
C30_NoRedundantChunk ==
    (call = "fixed_chunking" /\ ValidConfig) =>
        \A i \in 2..Len(windows) :
            Positions(windows[i]) \ Positions(windows[i - 1]) # {}

(***************************************************************************)
(* detect_language                                                         *)
(***************************************************************************)
DetectReturned == response.op = "detect_language"

\* a code point of the block U+0600-U+06FF occurs in the text
ArabicOccurs == \E i \in 1..Len(text) : 1536 <= text[i] /\ text[i] <= 1791

\* one of the letters a-z, A-Z occurs in the text
LatinOccurs == \E i \in 1..Len(text) : text[i] \in (65..90) \cup (97..122)

RECURSIVE PackedSentences(_, _)
PackedSentences(j, i) ==
    IF i > Len(chunks) THEN <<>>
    ELSE (IF chunk_origin[i].para = j /\ chunks[i].metadata.type = "multi-sentence"
          THEN chunk_origin[i].sentences ELSE <<>>) \o PackedSentences(j, i + 1)

\* the number of words of the first k sentences
RECURSIVE WordsOfFirst(_, _)
WordsOfFirst(sents, k) ==
    IF k = 0 THEN 0 ELSE WordsOfFirst(sents, k - 1) + WordCount(sents[k])

\* C28: in a paragraph of more than `size` words dynamic_chunking packs the sentences
\* greedily and in order.  The chunks of the paragraph hold its sentences, each once
\* and in order, none from another paragraph, the last chunk ending with the last
\* sentence; a chunk is closed only before a sentence that would push it over `size`
\* (its word count plus that of the first sentence of the next chunk of the paragraph
\* exceeds `size`, and no sentence but the first of a chunk does so); word_count and
\* sentence_count are the numbers of words and of sentences of the chunk's text.
C28_GreedyPacking ==
    call = "dynamic_chunking" =>
        /\ \A j \in 1..Len(para_sentences) :
              (strip(paragraphs[j]) # <<>> /\ WordCount(paragraphs[j]) > default_chunk_size)
                  => PackedSentences(j, 1) = para_sentences[j]
        /\ \A i \in 1..Len(chunks) :
              chunks[i].metadata.type = "multi-sentence" =>
                  LET sents == chunk_origin[i].sentences
                  IN  /\ sents # <<>>
                      /\ WordCount(paragraphs[chunk_origin[i].para]) > default_chunk_size
                      /\ chunks[i].metadata.word_count = WordCount(chunks[i].text)
                      /\ chunks[i].metadata.word_count = WordsOfFirst(sents, Len(sents))
                      /\ chunks[i].metadata.sentence_count = Len(sents)
                      /\ \A k \in 2..Len(sents) : WordsOfFirst(sents, k) <= default_chunk_size
                      /\ (i < Len(chunks) /\ chunk_origin[i + 1].para = chunk_origin[i].para) =>
                            WordCount(chunks[i].text)
                                + WordCount(chunk_origin[i + 1].sentences[1]) > default_chunk_size

\* "Go. Do.\nIt is so." with size 2: the buffer took two sentences and was flushed
\* before the third, which was flushed at the end of the paragraph
C28_FlushedBeforeThird ==
    /\ DynamicReturned
    /\ text = ThreeSentences
    /\ default_chunk_size = 2
    /\ Len(chunks) = 2
    /\ chunks[1].metadata.sentence_count = 2
    /\ chunks[1].metadata.word_count = 2
    /\ chunks[2].metadata.sentence_count = 1
    /\ chunks[2].metadata.word_count = 3

====
